---- MODULE Spec2Model ----
(***************************************************************************)
(* Model of the INDI driver runtime, src/libs/indibase/indidriver.c:       *)
(*   - the read-only sanity cache (propCache) and dispatch(),              *)
(*   - the value applicators IUUpdateSwitch / Number / Text / BLOB,        *)
(*   - the BLOB ping/ack pacing of IDSetBLOBVA.                            *)
(* Three specifications share the variables; each leaves the variables of  *)
(* the other parts at their initial value:                                 *)
(*   SpecApply    one driver-owned vector and the four applicators         *)
(*   SpecDispatch def_* registrations followed by dispatch of elements     *)
(*   SpecBlob1 / SpecBlobN  one / several driver threads calling IDSetBLOB *)
(***************************************************************************)
EXTENDS Integers, Sequences, FiniteSets, TLC

VARIABLES
    vp,              \* the driver-owned vector property being updated
    pre,             \* vp as it was when the last applicator call began
    batch,           \* the (name, value) pairs of the last applicator call
    ret,             \* return value of the last call (applicator or dispatch)
    returned,        \* TRUE once the call on the collected batch has returned
    emitted,         \* elements written to the outbound stream by the last call
    propCache,       \* the ROSC array, in insertion order
    request,         \* the element last handed to dispatch
    msg,             \* dispatch's error buffer msg[]
    callbacks,       \* driver callbacks invoked by the last dispatch
    exitCode,        \* <<>> while the driver runs, <<code>> once it has exited
    threads,         \* the driver threads calling IDSetBLOB
    pc,              \* per thread: position inside IDSetBLOBVA
    seenUid,         \* per thread: lastBlobPingUid as read at line 1292
    lastBlobPingUid, \* static long lastBlobPingUid
    stdoutOwner,     \* holder of the writer mutex (0 = free)
    stream,          \* outbound stream of the BLOB specifications
    awaited,         \* per emitted setBLOBVector: the ping uid it waited for
    inFlight,        \* pingReply uids sent by the peer, not yet read
    pingReplies,     \* ping uids whose pingReply the reader has observed
    roscOwner,       \* holder of rosc_mutex (0 = free)
    local,           \* per thread: the locals of the registry call it is in
    propCacheBase,   \* address of the array propCache points to
    written,         \* ptr of the vectors whose def element was written
    config,          \* the config file IUReadConfig opens
    readArgs,        \* dev, property and silent of the last IUReadConfig call
    replayed,        \* the config children that call handed to dispatch
    source_config,   \* the file IUSaveDefaultConfig reads: <<>> or <<bytes>>
    dest_config,     \* the default file it creates: <<>> or <<bytes>>
    destCreatable,   \* fopen(dest, "w") succeeds
    firstSaved       \* per write of dest_config: the source bytes at that call

applyVars == <<vp, pre, batch, ret, returned, emitted>>
regVars == <<roscOwner, local, propCacheBase, written>>
configVars == <<config, readArgs, replayed, source_config, dest_config, destCreatable,
                firstSaved>>
dispatchVars == <<propCache, request, msg, callbacks, exitCode, regVars, configVars>>
blobVars == <<threads, pc, seenUid, lastBlobPingUid, stdoutOwner, stream, awaited,
              inFlight, pingReplies>>
vars == <<vp, pre, batch, ret, returned, emitted, propCache, request, msg, callbacks,
          exitCode,
          threads, pc, seenUid, lastBlobPingUid, stdoutOwner, stream, awaited,
          inFlight, pingReplies, roscOwner, local, propCacheBase, written,
          config, readArgs, replayed, source_config, dest_config, destCreatable,
          firstSaved>>

(***************************************************************************)
(* Bounds                                                                  *)
(***************************************************************************)
NumMembers == 2      \* members of the vector under update
MaxBatch == 3        \* longest batch handed to IUUpdateSwitch/Text/BLOB
MaxNumberBatch == 2  \* longest batch handed to IUUpdateNumber
MaxValue == 2        \* number values range over 0..MaxValue
MaxConfigChildren == 3  \* children of the config root
MaxContent == 2      \* bytes in a config file as IUSaveDefaultConfig sees it
MaxBlobCalls == 3    \* IDSetBLOB calls made in one behaviour
MaxChildren == 2     \* children of an inbound new<Kind>Vector element
NumThreads == 2      \* driver threads of the concurrent BLOB specification

\* Member names, in vector order; UnknownName is in no vector.
AllNames == <<"A", "B", "C", "D", "E", "F">>
MemberNames == {AllNames[i] : i \in 1..NumMembers}
UnknownName == "Z"

(***************************************************************************)
(* Enumerations of indiapi.h as used by indidriver.c                       *)
(***************************************************************************)
IPS_IDLE == "Idle"
IPS_OK == "Ok"
IPS_ALERT == "Alert"
ISS_OFF == "Off"
ISS_ON == "On"
ISR_1OFMANY == "OneOfMany"
ISR_ATMOST1 == "AtMostOne"
ISR_NOFMANY == "AnyOfMany"
IP_RO == "ro"
IP_WO == "wo"
IP_RW == "rw"
INDI_NUMBER == "Number"
INDI_SWITCH == "Switch"
INDI_TEXT == "Text"
INDI_BLOB == "Blob"

(***************************************************************************)
(* Emitters used by the applicators: one element on the outbound stream.   *)
(***************************************************************************)
IDSetSwitch(svp, m) == [tag |-> "setSwitchVector", s |-> svp.s, msg |-> m]
IDSetNumber(nvp, m) == [tag |-> "setNumberVector", s |-> nvp.s, msg |-> m]
IDSetText(tvp, m) == [tag |-> "setTextVector", s |-> tvp.s, msg |-> m]

(***************************************************************************)
(* Member lookup, IUFindSwitch etc: index of the first member with that    *)
(* name, 0 when there is none.                                             *)
(***************************************************************************)
IUFindMember(members, name) ==
    LET hits == {i \in 1..Len(members) : members[i].name = name}
    IN IF hits = {} THEN 0 ELSE CHOOSE i \in hits : \A j \in hits : i <= j

IUFindSwitch(svp, name) == IUFindMember(svp.sp, name)
IUFindNumber(nvp, name) == IUFindMember(nvp.np, name)
IUFindText(tvp, name) == IUFindMember(tvp.tp, name)
IUFindBLOB(bvp, name) == IUFindMember(bvp.bp, name)

\* IUFindOnSwitch: the first member that is On, 0 when none is.
IUFindOnSwitch(svp) ==
    LET on == {i \in 1..Len(svp.sp) : svp.sp[i].s = ISS_ON}
    IN IF on = {} THEN 0 ELSE CHOOSE i \in on : \A j \in on : i <= j

\* IUResetSwitch: every member Off.
IUResetSwitch(svp) ==
    [svp EXCEPT !.sp = [i \in 1..Len(svp.sp) |-> [svp.sp[i] EXCEPT !.s = ISS_OFF]]]

OnCount(svp) == Cardinality({i \in 1..Len(svp.sp) : svp.sp[i].s = ISS_ON})

(***************************************************************************)
(* IUUpdateSwitch                                                          *)
(***************************************************************************)
\* The loop of lines 1345-1357 from entry i on: each name is resolved and its
\* state stored at once; the first unknown name sets Idle and stops the loop.
RECURSIVE SwitchLoop(_, _, _)
SwitchLoop(svp, b, i) ==
    IF i > Len(b) THEN [svp |-> svp, bad |-> 0]
    ELSE LET sp == IUFindSwitch(svp, b[i].name)
         IN IF sp = 0
            THEN [svp |-> [svp EXCEPT !.s = IPS_IDLE], bad |-> i]
            ELSE SwitchLoop([svp EXCEPT !.sp[sp].s = b[i].value], b, i + 1)

\* A variant that rejects only "too many On" and lets "none On" through.
IUUpdateSwitchNoZeroCheck(svp, b) ==
    LET so == IF svp.r = ISR_1OFMANY THEN IUFindOnSwitch(svp) ELSE 0
        start == IF svp.r = ISR_1OFMANY THEN IUResetSwitch(svp) ELSE svp
        loop == SwitchLoop(start, b, 1)
        t_count == OnCount(loop.svp)
        reset == IUResetSwitch(loop.svp)
        restored == [(IF so # 0 THEN [reset EXCEPT !.sp[so].s = ISS_ON] ELSE reset)
                        EXCEPT !.s = IPS_IDLE]
    IN IF loop.bad # 0
       THEN [vp |-> loop.svp, ret |-> -1,
             emitted |-> <<IDSetSwitch(loop.svp, "is not a member")>>]
       ELSE IF svp.r = ISR_1OFMANY /\ t_count > 1
       THEN [vp |-> restored, ret |-> -1,
             emitted |-> <<IDSetSwitch(restored, "Too many switches are on")>>]
       ELSE [vp |-> loop.svp, ret |-> 0, emitted |-> <<>>]

\* A variant that also holds an AtMostOne vector to at most one member On.
IUUpdateSwitchAtMostOneChecked(svp, b) ==
    LET loop == SwitchLoop(svp, b, 1)
        idle == [svp EXCEPT !.s = IPS_IDLE]
    IN IF loop.bad # 0
       THEN [vp |-> loop.svp, ret |-> -1,
             emitted |-> <<IDSetSwitch(loop.svp, "is not a member")>>]
       ELSE IF svp.r = ISR_ATMOST1 /\ OnCount(loop.svp) > 1
       THEN [vp |-> idle, ret |-> -1,
             emitted |-> <<IDSetSwitch(idle, "Too many switches are on")>>]
       ELSE [vp |-> loop.svp, ret |-> 0, emitted |-> <<>>]

IUUpdateSwitch(svp, b) ==
    LET so == IF svp.r = ISR_1OFMANY THEN IUFindOnSwitch(svp) ELSE 0
        start == IF svp.r = ISR_1OFMANY THEN IUResetSwitch(svp) ELSE svp
        loop == SwitchLoop(start, b, 1)
        t_count == OnCount(loop.svp)
        reset == IUResetSwitch(loop.svp)
        restored == [(IF so # 0 THEN [reset EXCEPT !.sp[so].s = ISS_ON] ELSE reset)
                        EXCEPT !.s = IPS_IDLE]
    IN IF loop.bad # 0
       THEN [vp |-> loop.svp, ret |-> -1,
             emitted |-> <<IDSetSwitch(loop.svp, "is not a member")>>]
       ELSE IF svp.r = ISR_1OFMANY /\ t_count # 1
       THEN [vp |-> restored, ret |-> -1,
             emitted |-> <<IDSetSwitch(restored,
                              IF t_count = 0 THEN "No switch is on"
                                             ELSE "Too many switches are on")>>]
       ELSE [vp |-> loop.svp, ret |-> 0, emitted |-> <<>>]

(***************************************************************************)
(* IUUpdateNumber                                                          *)
(***************************************************************************)
\* First loop, lines 1390-1407: index of the first entry that fails and why.
RECURSIVE NumberCheck(_, _, _)
NumberCheck(nvp, b, i) ==
    IF i > Len(b) THEN [bad |-> 0, why |-> "none"]
    ELSE LET np == IUFindNumber(nvp, b[i].name)
         IN IF np = 0 THEN [bad |-> i, why |-> "member"]
            ELSE IF b[i].value < nvp.np[np].min \/ b[i].value > nvp.np[np].max
            THEN [bad |-> i, why |-> "range"]
            ELSE NumberCheck(nvp, b, i + 1)

\* Second loop, lines 1410-1414: store entries i.. in order.
RECURSIVE NumberStore(_, _, _, _)
NumberStore(nvp, b, i, last) ==
    IF i > last THEN nvp
    ELSE LET np == IUFindNumber(nvp, b[i].name)
         IN NumberStore([nvp EXCEPT !.np[np].value = b[i].value], b, i + 1, last)

\* A single-pass variant: entries before the failing one are already stored.
IUUpdateNumberOnePass(nvp, b) ==
    LET chk == NumberCheck(nvp, b, 1)
        part == NumberStore(nvp, b, 1, chk.bad - 1)
        idle == [part EXCEPT !.s = IPS_IDLE]
        alert == [part EXCEPT !.s = IPS_ALERT]
    IN IF chk.why = "member"
       THEN [vp |-> idle, ret |-> -1, emitted |-> <<IDSetNumber(idle, "is not a member")>>]
       ELSE IF chk.why = "range"
       THEN [vp |-> alert, ret |-> -1, emitted |-> <<IDSetNumber(alert, "Invalid range")>>]
       ELSE [vp |-> NumberStore(nvp, b, 1, Len(b)), ret |-> 0, emitted |-> <<>>]

\* A variant whose range check forgets the upper limit.
IUUpdateNumberNoMax(nvp, b) ==
    LET known == \A i \in 1..Len(b) : IUFindNumber(nvp, b[i].name) # 0
        low == {i \in 1..Len(b) : IUFindNumber(nvp, b[i].name) # 0
                   /\ b[i].value < nvp.np[IUFindNumber(nvp, b[i].name)].min}
        idle == [nvp EXCEPT !.s = IPS_IDLE]
        alert == [nvp EXCEPT !.s = IPS_ALERT]
    IN IF ~known
       THEN [vp |-> idle, ret |-> -1, emitted |-> <<IDSetNumber(idle, "is not a member")>>]
       ELSE IF low # {}
       THEN [vp |-> alert, ret |-> -1, emitted |-> <<IDSetNumber(alert, "Invalid range")>>]
       ELSE [vp |-> NumberStore(nvp, b, 1, Len(b)), ret |-> 0, emitted |-> <<>>]

\* A variant that reports an out-of-range value with state Idle.
IUUpdateNumberIdleOnRange(nvp, b) ==
    LET chk == NumberCheck(nvp, b, 1)
        idle == [nvp EXCEPT !.s = IPS_IDLE]
    IN IF chk.why = "member"
       THEN [vp |-> idle, ret |-> -1, emitted |-> <<IDSetNumber(idle, "is not a member")>>]
       ELSE IF chk.why = "range"
       THEN [vp |-> idle, ret |-> -1, emitted |-> <<IDSetNumber(idle, "Invalid range")>>]
       ELSE [vp |-> NumberStore(nvp, b, 1, Len(b)), ret |-> 0, emitted |-> <<>>]

IUUpdateNumber(nvp, b) ==
    LET chk == NumberCheck(nvp, b, 1)
        idle == [nvp EXCEPT !.s = IPS_IDLE]
        alert == [nvp EXCEPT !.s = IPS_ALERT]
    IN IF chk.why = "member"
       THEN [vp |-> idle, ret |-> -1, emitted |-> <<IDSetNumber(idle, "is not a member")>>]
       ELSE IF chk.why = "range"
       THEN [vp |-> alert, ret |-> -1, emitted |-> <<IDSetNumber(alert, "Invalid range")>>]
       ELSE [vp |-> NumberStore(nvp, b, 1, Len(b)), ret |-> 0, emitted |-> <<>>]

(***************************************************************************)
(* IUUpdateText                                                            *)
(***************************************************************************)
\* IUSaveText: the member's text is replaced by a copy of the new one.
IUSaveText(tvp, tp, text) == [tvp EXCEPT !.tp[tp].text = text]

RECURSIVE TextStore(_, _, _)
TextStore(tvp, b, i) ==
    IF i > Len(b) THEN tvp
    ELSE TextStore(IUSaveText(tvp, IUFindText(tvp, b[i].name), b[i].value), b, i + 1)

IUUpdateText(tvp, b) ==
    LET idle == [tvp EXCEPT !.s = IPS_IDLE]
    IN IF \E i \in 1..Len(b) : IUFindText(tvp, b[i].name) = 0
       THEN [vp |-> idle, ret |-> -1, emitted |-> <<IDSetText(idle, "is not a member")>>]
       ELSE [vp |-> TextStore(tvp, b, 1), ret |-> 0, emitted |-> <<>>]

(***************************************************************************)
(* IUUpdateBLOB                                                            *)
(***************************************************************************)
\* IUSaveBLOB: the member takes the new buffer; a batch value stands for the
\* (size, blobsize, blob, format) tuple of one entry.
IUSaveBLOB(bvp, bp, blob) == [bvp EXCEPT !.bp[bp].blob = blob]

RECURSIVE BLOBStore(_, _, _)
BLOBStore(bvp, b, i) ==
    IF i > Len(b) THEN bvp
    ELSE BLOBStore(IUSaveBLOB(bvp, IUFindBLOB(bvp, b[i].name), b[i].value), b, i + 1)

\* The error path reports through IDSetBLOB, which writes the setBLOBVector
\* and the pingRequest that follows it (lines 1301-1306).
IUUpdateBLOB(bvp, b) ==
    LET idle == [bvp EXCEPT !.s = IPS_IDLE]
    IN IF \E i \in 1..Len(b) : IUFindBLOB(bvp, b[i].name) = 0
       THEN [vp |-> idle, ret |-> -1,
             emitted |-> <<[tag |-> "setBLOBVector", s |-> idle.s, msg |-> "is not a member"],
                           [tag |-> "pingRequest", s |-> idle.s, msg |-> "SetBLOB"]>>]
       ELSE [vp |-> BLOBStore(bvp, b, 1), ret |-> 0, emitted |-> <<>>]

(***************************************************************************)
(* SpecApply: a driver owning one vector collects (name, value) pairs the  *)
(* way dispatch does (n = 0, then one pair per well-formed child) and      *)
(* hands them to the applicator of the vector's kind.                      *)
(***************************************************************************)
\* Limits of the number members, by position: [1,2], [0,1], [1,2], ...
NumberMin(i) == i % 2
NumberMax(i) == 1 + (i % 2)

TextValues == {"x", "y"}
BlobValues == {"b0", "b1"}
NumberValues == 0..MaxValue

SwitchVectors ==
    {[kind |-> INDI_SWITCH, r |-> r, s |-> IPS_OK,
      sp |-> [i \in 1..NumMembers |-> [name |-> AllNames[i], s |-> st[i]]]] :
        r \in {ISR_1OFMANY, ISR_ATMOST1, ISR_NOFMANY},
        st \in [1..NumMembers -> {ISS_ON, ISS_OFF}]}

\* The vectors a driver starts with: a OneOfMany vector has at most one
\* member On, a number lies within its limits.
InitialSwitchVectors ==
    {v \in SwitchVectors : v.r = ISR_1OFMANY => OnCount(v) <= 1}

InitialNumberVectors ==
    {[kind |-> INDI_NUMBER, s |-> IPS_OK,
      np |-> [i \in 1..NumMembers |->
                 [name |-> AllNames[i], value |-> val[i],
                  min |-> NumberMin(i), max |-> NumberMax(i)]]] :
        val \in {f \in [1..NumMembers -> NumberValues] :
                    \A i \in 1..NumMembers : NumberMin(i) <= f[i] /\ f[i] <= NumberMax(i)}}

InitialTextVectors ==
    {[kind |-> INDI_TEXT, s |-> IPS_OK,
      tp |-> [i \in 1..NumMembers |-> [name |-> AllNames[i], text |-> t[i]]]] :
        t \in [1..NumMembers -> TextValues]}

InitialBlobVectors ==
    {[kind |-> INDI_BLOB, s |-> IPS_OK,
      bp |-> [i \in 1..NumMembers |-> [name |-> AllNames[i], blob |-> d[i]]]] :
        d \in [1..NumMembers -> BlobValues]}

ValuesOf(kind) ==
    CASE kind = INDI_SWITCH -> {ISS_ON, ISS_OFF}
      [] kind = INDI_NUMBER -> NumberValues
      [] kind = INDI_TEXT -> TextValues
      [] kind = INDI_BLOB -> BlobValues

\* The pairs a peer can send: every member with every value, and one pair
\* naming no member (its value is never looked at).
PairsOf(kind) ==
    {[name |-> n, value |-> v] : n \in MemberNames, v \in ValuesOf(kind)}
        \cup {[name |-> UnknownName, value |-> CHOOSE v \in ValuesOf(kind) : TRUE]}

BatchLimit(kind) == IF kind = INDI_NUMBER THEN MaxNumberBatch ELSE MaxBatch

\* No config file has been read and no default file written.
InitConfigIdle ==
    /\ config = [state |-> "missing", children |-> <<>>]
    /\ readArgs = [dev |-> "", property |-> <<>>, silent |-> FALSE]
    /\ replayed = <<>>
    /\ source_config = <<>>
    /\ dest_config = <<>>
    /\ destCreatable = TRUE
    /\ firstSaved = <<>>

InitDispatchIdle ==
    /\ propCache = <<>>
    /\ request = [tag |-> "none"]
    /\ msg = ""
    /\ callbacks = <<>>
    /\ exitCode = <<>>
    /\ roscOwner = 0
    /\ local = <<>>
    /\ propCacheBase = 0
    /\ written = {}
    /\ InitConfigIdle

InitBlobIdle ==
    /\ threads = {}
    /\ pc = <<>>
    /\ seenUid = <<>>
    /\ lastBlobPingUid = 0
    /\ stdoutOwner = 0
    /\ stream = <<>>
    /\ awaited = <<>>
    /\ inFlight = {}
    /\ pingReplies = {}

InitApply ==
    /\ vp \in InitialSwitchVectors \cup InitialNumberVectors
                \cup InitialTextVectors \cup InitialBlobVectors
    /\ pre = vp
    /\ batch = <<>>
    /\ ret = 0
    /\ returned = FALSE
    /\ emitted = <<>>
    /\ InitDispatchIdle
    /\ InitBlobIdle

\* n = 0 at the head of the collecting loop (lines 309, 350, 396, 435).
BeginBatch ==
    /\ returned
    /\ batch' = <<>>
    /\ ret' = 0
    /\ returned' = FALSE
    /\ pre' = vp
    /\ emitted' = <<>>
    /\ UNCHANGED <<vp, dispatchVars, blobVars>>

\* names[n] / values[n] stored, n++ (lines 323-326, 363-374, 409-411, 459-464).
Collect ==
    /\ ~returned
    /\ Len(batch) < BatchLimit(vp.kind)
    /\ \E p \in PairsOf(vp.kind) : batch' = Append(batch, p)
    /\ UNCHANGED <<vp, pre, ret, returned, emitted, dispatchVars, blobVars>>

Applied(r) ==
    /\ vp' = r.vp
    /\ pre' = vp
    /\ ret' = r.ret
    /\ returned' = TRUE
    /\ emitted' = r.emitted
    /\ UNCHANGED <<batch, dispatchVars>>

ApplySwitches ==
    /\ ~returned /\ vp.kind = INDI_SWITCH
    /\ Applied(IUUpdateSwitch(vp, batch))
    /\ UNCHANGED blobVars

ApplyNumbers ==
    /\ ~returned /\ vp.kind = INDI_NUMBER
    /\ Applied(IUUpdateNumber(vp, batch))
    /\ UNCHANGED blobVars

ApplyTexts ==
    /\ ~returned /\ vp.kind = INDI_TEXT
    /\ Applied(IUUpdateText(vp, batch))
    /\ UNCHANGED blobVars

\* The failing call goes through IDSetBLOB, which bumps lastBlobPingUid; the
\* peer is taken to have answered the previous ping.
ApplyBlobs ==
    /\ ~returned /\ vp.kind = INDI_BLOB
    /\ LET r == IUUpdateBLOB(vp, batch)
       IN /\ r.ret = -1 => lastBlobPingUid < MaxBlobCalls
          /\ Applied(r)
          /\ lastBlobPingUid' = IF r.ret = -1 THEN lastBlobPingUid + 1 ELSE lastBlobPingUid
    /\ UNCHANGED <<threads, pc, seenUid, stdoutOwner, stream, awaited, inFlight, pingReplies>>

NextApply ==
    \/ BeginBatch
    \/ Collect
    \/ ApplySwitches
    \/ ApplyNumbers
    \/ ApplyTexts
    \/ ApplyBlobs

SpecApply == InitApply /\ [][NextApply]_vars

(***************************************************************************)
(* Properties of the applicators (SpecApply)                               *)
(***************************************************************************)
Members(v) ==
    CASE v.kind = INDI_SWITCH -> v.sp
      [] v.kind = INDI_NUMBER -> v.np
      [] v.kind = INDI_TEXT -> v.tp
      [] v.kind = INDI_BLOB -> v.bp

IsMember(v, name) == \E i \in 1..Len(Members(v)) : Members(v)[i].name = name

AllResolve(v, b) == \A i \in 1..Len(b) : IsMember(v, b[i].name)

OutOfRange(v, p) ==
    \E i \in 1..Len(v.np) :
        /\ v.np[i].name = p.name
        /\ (p.value < v.np[i].min \/ p.value > v.np[i].max)

BadNumberEntry(v, p) == ~IsMember(v, p.name) \/ OutOfRange(v, p)

SwitchCall(rule) == returned /\ vp.kind = INDI_SWITCH /\ pre.r = rule
NumberCall == returned /\ vp.kind = INDI_NUMBER

\* C3: for a OneOfMany switch vector, whenever IUUpdateSwitch returns 0
\* exactly one member of the vector is On, whatever the vector held before
\* and whatever the batch.
C3_OneOfManySuccess ==
    (SwitchCall(ISR_1OFMANY) /\ ret = 0) => OnCount(vp) = 1

C3_Witness ==
    SwitchCall(ISR_1OFMANY) /\ ret = 0 /\ vp.sp # pre.sp /\ OnCount(pre) # 1

\* C4: when IUUpdateSwitch rejects a batch on a OneOfMany vector because the
\* number of On members is not 1, it returns -1, the vector state is Idle and
\* every member has the state it had before the call.
C4_RejectRestores ==
    (SwitchCall(ISR_1OFMANY) /\ AllResolve(pre, batch) /\ ret = -1)
        => (vp.s = IPS_IDLE /\ vp.sp = pre.sp)

\* C5: for each of the four applicators, a batch with a name that is no
\* member of the vector is refused and leaves every member as it was.
C5_UnknownNameModifiesNothing ==
    (returned /\ ~AllResolve(pre, batch))
        => (ret = -1 /\ Members(vp) = Members(pre))

FirstBad(v, b) ==
    CHOOSE i \in 1..Len(b) :
        /\ BadNumberEntry(v, b[i])
        /\ \A j \in 1..(i - 1) : ~BadNumberEntry(v, b[j])

NumberFailure == NumberCall /\ \E i \in 1..Len(batch) : BadNumberEntry(pre, batch[i])

OneSetNumberWithMessage ==
    /\ Len(emitted) = 1
    /\ emitted[1].tag = "setNumberVector"
    /\ emitted[1].msg # ""

\* C8 as stated: on any failure of IUUpdateNumber (unknown member name or
\* value out of range) the vector state is Alert, exactly one setNumberVector
\* with a message is emitted and -1 is returned.
C8_FailureSetsAlert ==
    NumberFailure => (vp.s = IPS_ALERT /\ OneSetNumberWithMessage /\ ret = -1)

\* C8 amended: on any failure of IUUpdateNumber -1 is returned and exactly one
\* setNumberVector with a message is emitted, carrying the new vector state:
\* Alert when the first failing entry is a value out of range, Idle when it
\* names no member.
C8_FailureStateByCause ==
    NumberFailure =>
        /\ ret = -1
        /\ OneSetNumberWithMessage
        /\ emitted[1].s = vp.s
        /\ LET p == batch[FirstBad(pre, batch)]
           IN /\ vp.s = (IF IsMember(pre, p.name) THEN IPS_ALERT ELSE IPS_IDLE)
              /\ emitted[1].msg = (IF IsMember(pre, p.name) THEN "Invalid range"
                                                             ELSE "is not a member")

C8_Witness ==
    /\ NumberFailure /\ Len(batch) >= 2
    /\ ~IsMember(pre, batch[FirstBad(pre, batch)].name)
    /\ vp.s = IPS_IDLE /\ pre.s = IPS_ALERT

(***************************************************************************)
(* The read-only sanity cache                                              *)
(***************************************************************************)
\* rosc_new + rosc_add: the entry is appended to the array.
rosc_add(cache, propName, devName, perm, ptr, type) ==
    Append(cache, [propName |-> propName, devName |-> devName, perm |-> perm,
                   ptr |-> ptr, type |-> type])

\* A lookup that compares the property name only.
rosc_find_by_name(cache, propName, devName) ==
    LET hits == {i \in 1..Len(cache) : cache[i].propName = propName}
    IN IF hits = {} THEN 0 ELSE CHOOSE i \in hits : \A j \in hits : i <= j

\* rosc_find: index of the first entry with that name and device, 0 for NULL.
rosc_find(cache, propName, devName) ==
    LET hits == {i \in 1..Len(cache) :
                    cache[i].propName = propName /\ cache[i].devName = devName}
    IN IF hits = {} THEN 0 ELSE CHOOSE i \in hits : \A j \in hits : i <= j

\* A registration that overwrites the entry already recorded for the key.
rosc_add_overwrite(cache, propName, devName, perm, ptr, type) ==
    LET i == rosc_find(cache, propName, devName)
    IN IF i = 0
       THEN rosc_add(cache, propName, devName, perm, ptr, type)
       ELSE [cache EXCEPT ![i] = [propName |-> propName, devName |-> devName,
                                  perm |-> perm, ptr |-> ptr, type |-> type]]

rosc_add_unique(cache, propName, devName, perm, ptr, type) ==
    IF rosc_find(cache, propName, devName) = 0
    THEN rosc_add(cache, propName, devName, perm, ptr, type)
    ELSE cache

\* A read-only scan that tests for write-only instead.
ReadOnlyScanWrongPerm(cache, name, dev) ==
    LET hits == {i \in 1..Len(cache) :
                    cache[i].propName = name /\ cache[i].devName = dev}
    IN hits # {} /\ cache[CHOOSE i \in hits : \A j \in hits : i <= j].perm = IP_WO

\* The scan of lines 283-295: the first entry with that name and device
\* decides; TRUE when its permission is IP_RO.
ReadOnlyScan(cache, name, dev) ==
    LET hits == {i \in 1..Len(cache) :
                    cache[i].propName = name /\ cache[i].devName = dev}
    IN hits # {} /\ cache[CHOOSE i \in hits : \A j \in hits : i <= j].perm = IP_RO

(***************************************************************************)
(* The driver's vectors and the def emitters                               *)
(***************************************************************************)
INDI_LIGHT == "Light"
Devices == {"Cam", "Mount"}
PropNames == {"P", "Q"}

\* The vectors the driver owns; ptr identifies the storage.  Vectors 1/2 and
\* 4/5 share their (device, name).
DriverVectors ==
    {[ptr |-> 1, kind |-> INDI_NUMBER, device |-> "Cam", name |-> "P", p |-> IP_RO],
     [ptr |-> 2, kind |-> INDI_SWITCH, device |-> "Cam", name |-> "P", p |-> IP_RW],
     [ptr |-> 3, kind |-> INDI_TEXT, device |-> "Cam", name |-> "Q", p |-> IP_RW],
     [ptr |-> 4, kind |-> INDI_BLOB, device |-> "Mount", name |-> "P", p |-> IP_WO],
     [ptr |-> 5, kind |-> INDI_TEXT, device |-> "Mount", name |-> "P", p |-> IP_RO],
     [ptr |-> 6, kind |-> INDI_LIGHT, device |-> "Mount", name |-> "Q", p |-> IP_RO]}

VectorAt(ptr) == CHOOSE v \in DriverVectors : v.ptr = ptr

DefElement(v) ==
    [tag |-> "def" \o (IF v.kind = INDI_BLOB THEN "BLOB" ELSE v.kind) \o "Vector",
     device |-> v.device, name |-> v.name, ptr |-> v.ptr]

\* A definition that writes its element twice.
IDDefTwice(cache, v) ==
    [emitted |-> <<DefElement(v), DefElement(v)>>,
     cache |-> rosc_add_unique(cache, v.name, v.device, v.p, v.ptr, v.kind)]

\* IDDefTextVA / IDDefNumberVA / IDDefSwitchVA / IDDefBLOBVA: the element is
\* written, then the property is added to the cache under its own kind.
IDDef(cache, v) ==
    [emitted |-> <<DefElement(v)>>,
     cache |-> rosc_add_unique(cache, v.name, v.device, v.p, v.ptr, v.kind)]

\* A light definition that also adds the property to the cache.
IDDefLightRegisters(cache, v) ==
    [emitted |-> <<DefElement(v)>>,
     cache |-> rosc_add_unique(cache, v.name, v.device, v.p, v.ptr, v.kind)]

\* IDDefLightVA: the element is written, nothing is added to the cache.
IDDefLightVA(cache, v) == [emitted |-> <<DefElement(v)>>, cache |-> cache]

\* IDMessage(dev, text): one message element.
IDMessage(dev, text) == [tag |-> "message", device |-> dev, msg |-> text]

(***************************************************************************)
(* dispatch                                                                *)
(* An element is [tag, version, device, name, children]; an optional       *)
(* attribute is <<>> when absent and <<value>> when present.  A child is   *)
(* [tag, name, body, format, size, enclen], its body a tuple of characters.*)
(***************************************************************************)
INDIV == 17    \* protocol version 1.7, in tenths

SnoopTags ==
    {"setNumberVector", "setTextVector", "setLightVector", "setSwitchVector",
     "setBLOBVector", "defNumberVector", "defTextVector", "defLightVector",
     "defSwitchVector", "defBLOBVector", "message", "delProperty"}

NewTags == {"newNumberVector", "newSwitchVector", "newTextVector", "newBLOBVector"}

Digits == <<"0", "1", "2", "3", "4", "5", "6", "7", "8", "9">>
IsDigit(c) == \E i \in 1..Len(Digits) : Digits[i] = c
DigitValue(c) == (CHOOSE i \in 1..Len(Digits) : Digits[i] = c) - 1

RECURSIVE DecimalValue(_, _)
DecimalValue(body, acc) ==
    IF body = <<>> THEN acc
    ELSE DecimalValue(Tail(body), 10 * acc + DigitValue(Head(body)))

\* f_scansexa on a plain decimal body: ok is FALSE for the return value -1.
f_scansexa(body) ==
    IF body # <<>> /\ \A i \in 1..Len(body) : IsDigit(body[i])
    THEN [ok |-> TRUE, value |-> DecimalValue(body, 0)]
    ELSE [ok |-> FALSE, value |-> 0]

\* strncmp(body, "On", 2) == 0 and strcmp(body, "Off") == 0
HasPrefixOn(body) == Len(body) >= 2 /\ SubSeq(body, 1, 2) = <<"O", "n">>
IsOff(body) == body = <<"O", "f", "f">>

\* from64tobits_fast: the number of bytes decoded from bloblen characters.
from64tobits_fast(body, bloblen) == (3 * bloblen) \div 4

\* crackDN: both attributes are required.
crackDN(root) ==
    IF root.device = <<>>
    THEN [ret |-> -1, msg |-> root.tag \o " requires 'device' attribute"]
    ELSE IF root.name = <<>>
    THEN [ret |-> -1, msg |-> root.tag \o " requires 'name' attribute"]
    ELSE [ret |-> 0, msg |-> ""]

\* pcdataXMLEle(ep) printed with %s.
RECURSIVE pcdataXMLEle(_)
pcdataXMLEle(body) == IF body = <<>> THEN "" ELSE Head(body) \o pcdataXMLEle(Tail(body))

\* A loop that leaves out the pairs whose name is no member name.
RECURSIVE CollectNumbersMembersOnly(_, _, _, _)
CollectNumbersMembersOnly(eps, dev, name, acc) ==
    IF eps = <<>> THEN acc
    ELSE LET ep == Head(eps)
             parsed == f_scansexa(ep.body)
         IN CollectNumbersMembersOnly(Tail(eps), dev, name,
              IF ep.tag = "oneNumber" /\ ep.name # <<>> /\ parsed.ok
                    /\ ep.name[1] \in MemberNames
              THEN [acc EXCEPT !.names = Append(@, ep.name[1]),
                               !.values = Append(@, parsed.value)]
              ELSE acc)

\* The collecting loops: acc is [names, values, out], out the message
\* elements written on the way.
RECURSIVE CollectNumbers(_, _, _, _)
CollectNumbers(eps, dev, name, acc) ==
    IF eps = <<>> THEN acc
    ELSE LET ep == Head(eps)
             parsed == f_scansexa(ep.body)
         IN CollectNumbers(Tail(eps), dev, name,
              IF ep.tag = "oneNumber" /\ ep.name # <<>>
              THEN IF ~parsed.ok
                   THEN [acc EXCEPT !.out = Append(@,
                            IDMessage(dev, "[ERROR] " \o name \o ": Bad format "
                                           \o pcdataXMLEle(ep.body)))]
                   ELSE [acc EXCEPT !.names = Append(@, ep.name[1]),
                                    !.values = Append(@, parsed.value)]
              ELSE acc)

\* A loop that takes a switch body for On only when it is exactly "On".
RECURSIVE CollectSwitchesExactOn(_, _, _, _)
CollectSwitchesExactOn(eps, dev, name, acc) ==
    IF eps = <<>> THEN acc
    ELSE LET ep == Head(eps)
         IN CollectSwitchesExactOn(Tail(eps), dev, name,
              IF ep.tag = "oneSwitch" /\ ep.name # <<>>
              THEN IF ep.body = <<"O", "n">>
                   THEN [acc EXCEPT !.names = Append(@, ep.name[1]),
                                    !.values = Append(@, ISS_ON)]
                   ELSE IF IsOff(ep.body)
                   THEN [acc EXCEPT !.names = Append(@, ep.name[1]),
                                    !.values = Append(@, ISS_OFF)]
                   ELSE [acc EXCEPT !.out = Append(@,
                            IDMessage(dev, "[ERROR] " \o name \o ": must be On or Off: "
                                           \o pcdataXMLEle(ep.body)))]
              ELSE acc)

RECURSIVE CollectSwitches(_, _, _, _)
CollectSwitches(eps, dev, name, acc) ==
    IF eps = <<>> THEN acc
    ELSE LET ep == Head(eps)
         IN CollectSwitches(Tail(eps), dev, name,
              IF ep.tag = "oneSwitch" /\ ep.name # <<>>
              THEN IF HasPrefixOn(ep.body)
                   THEN [acc EXCEPT !.names = Append(@, ep.name[1]),
                                    !.values = Append(@, ISS_ON)]
                   ELSE IF IsOff(ep.body)
                   THEN [acc EXCEPT !.names = Append(@, ep.name[1]),
                                    !.values = Append(@, ISS_OFF)]
                   ELSE [acc EXCEPT !.out = Append(@,
                            IDMessage(dev, "[ERROR] " \o name \o ": must be On or Off: "
                                           \o pcdataXMLEle(ep.body)))]
              ELSE acc)

RECURSIVE CollectTexts(_, _)
CollectTexts(eps, acc) ==
    IF eps = <<>> THEN acc
    ELSE LET ep == Head(eps)
         IN CollectTexts(Tail(eps),
              IF ep.tag = "oneText" /\ ep.name # <<>>
              THEN [acc EXCEPT !.names = Append(@, ep.name[1]),
                               !.values = Append(@, ep.body)]
              ELSE acc)

RECURSIVE CollectBLOBs(_, _)
CollectBLOBs(eps, acc) ==
    IF eps = <<>> THEN acc
    ELSE LET ep == Head(eps)
             bloblen == IF ep.enclen # <<>> THEN ep.enclen[1] ELSE Len(ep.body)
         IN CollectBLOBs(Tail(eps),
              IF ep.tag = "oneBLOB" /\ ep.name # <<>> /\ ep.format # <<>> /\ ep.size # <<>>
              THEN [acc EXCEPT !.names = Append(@, ep.name[1]),
                               !.values = Append(@,
                                  [size |-> ep.size[1],
                                   blobsize |-> from64tobits_fast(ep.body, bloblen),
                                   format |-> ep.format[1]])]
              ELSE acc)

NoPairs == [names |-> <<>>, values |-> <<>>, out |-> <<>>]

\* What one dispatch call does: the code returned, the text put in msg (msg0
\* when none is), the driver callbacks invoked, the elements written, the
\* cache afterwards and the exit status.
Outcome(r, m, cbs, out, cache, ex) ==
    [ret |-> r, msg |-> m, callbacks |-> cbs, emitted |-> out, cache |-> cache,
     exit |-> ex]

\* A variant that says nothing when no pair was collected.
InvokeOrComplainSilently(fn, dev, name, got, complaint, cache, msg0) ==
    IF Len(got.names) > 0
    THEN Outcome(0, msg0,
                 <<[fn |-> fn, dev |-> dev, name |-> name,
                    names |-> got.names, values |-> got.values]>>,
                 got.out, cache, <<>>)
    ELSE Outcome(0, msg0, <<>>, got.out, cache, <<>>)

\* Lines 334-339, 381-386, 416-421, 469-478: the driver is called when at
\* least one pair was collected, otherwise a message is written.
InvokeOrComplain(fn, dev, name, got, complaint, cache, msg0) ==
    IF Len(got.names) > 0
    THEN Outcome(0, msg0,
                 <<[fn |-> fn, dev |-> dev, name |-> name,
                    names |-> got.names, values |-> got.values]>>,
                 got.out, cache, <<>>)
    ELSE Outcome(0, msg0, <<>>,
                 Append(got.out, IDMessage(dev, "[ERROR] " \o name \o complaint)),
                 cache, <<>>)

\* A version test that also refuses the local version.
DispatchGetPropertiesStrict(root, cache, msg0) ==
    IF root.version = <<>> \/ root.version[1] >= INDIV
    THEN Outcome(0, msg0, <<>>, <<>>, cache, <<1>>)
    ELSE IF root.name # <<>> /\ root.device # <<>>
    THEN LET prop == rosc_find(cache, root.name[1], root.device[1])
         IN IF prop = 0
            THEN Outcome(0, msg0, <<>>, <<>>, cache, <<>>)
            ELSE IF cache[prop].type \in {INDI_NUMBER, INDI_SWITCH, INDI_TEXT, INDI_BLOB}
            THEN LET d == IDDef(cache, [VectorAt(cache[prop].ptr)
                                          EXCEPT !.kind = cache[prop].type])
                 IN Outcome(0, msg0, <<>>, d.emitted, d.cache, <<>>)
            ELSE Outcome(0, msg0, <<>>, <<>>, cache, <<>>)
    ELSE Outcome(0, msg0, <<[fn |-> "ISGetProperties", dev |-> root.device]>>, <<>>,
                 cache, <<>>)

\* A getProperties that never passes the device to ISGetProperties.
DispatchGetPropertiesNoDevice(root, cache, msg0) ==
    IF root.version = <<>> \/ root.version[1] > INDIV
    THEN Outcome(0, msg0, <<>>, <<>>, cache, <<1>>)
    ELSE IF root.name # <<>> /\ root.device # <<>>
    THEN LET prop == rosc_find(cache, root.name[1], root.device[1])
         IN IF prop = 0
            THEN Outcome(0, msg0, <<>>, <<>>, cache, <<>>)
            ELSE IF cache[prop].type \in {INDI_NUMBER, INDI_SWITCH, INDI_TEXT, INDI_BLOB}
            THEN LET d == IDDef(cache, [VectorAt(cache[prop].ptr)
                                          EXCEPT !.kind = cache[prop].type])
                 IN Outcome(0, msg0, <<>>, d.emitted, d.cache, <<>>)
            ELSE Outcome(0, msg0, <<>>, <<>>, cache, <<>>)
    ELSE Outcome(0, msg0, <<[fn |-> "ISGetProperties", dev |-> <<>>]>>, <<>>,
                 cache, <<>>)

\* Lines 189-253.
DispatchGetProperties(root, cache, msg0) ==
    IF root.version = <<>> \/ root.version[1] > INDIV
    THEN Outcome(0, msg0, <<>>, <<>>, cache, <<1>>)
    ELSE IF root.name # <<>> /\ root.device # <<>>
    THEN LET prop == rosc_find(cache, root.name[1], root.device[1])
         IN IF prop = 0
            THEN Outcome(0, msg0, <<>>, <<>>, cache, <<>>)
            ELSE IF cache[prop].type \in {INDI_NUMBER, INDI_SWITCH, INDI_TEXT, INDI_BLOB}
            THEN LET d == IDDef(cache, [VectorAt(cache[prop].ptr)
                                          EXCEPT !.kind = cache[prop].type])
                 IN Outcome(0, msg0, <<>>, d.emitted, d.cache, <<>>)
            ELSE Outcome(0, msg0, <<>>, <<>>, cache, <<>>)
    ELSE Outcome(0, msg0, <<[fn |-> "ISGetProperties", dev |-> root.device]>>, <<>>,
                 cache, <<>>)

\* A variant that picks the driver callback by the kind recorded in the
\* cache entry instead of by the tag.
DispatchByKind(root, dev, name, cache, msg0) ==
    LET type == cache[rosc_find(cache, name, dev)].type
    IN IF root.tag \notin NewTags
       THEN Outcome(1, "Unknown command: " \o root.tag, <<>>, <<>>, cache, <<>>)
       ELSE CASE type = INDI_NUMBER ->
                   InvokeOrComplain("ISNewNumber", dev, name,
                                    CollectNumbers(root.children, dev, name, NoPairs),
                                    ": newNumberVector with no valid members", cache, msg0)
              [] type = INDI_SWITCH ->
                   InvokeOrComplain("ISNewSwitch", dev, name,
                                    CollectSwitches(root.children, dev, name, NoPairs),
                                    ": newSwitchVector with no valid members", cache, msg0)
              [] type = INDI_TEXT ->
                   InvokeOrComplain("ISNewText", dev, name,
                                    CollectTexts(root.children, NoPairs),
                                    ": set with no valid members", cache, msg0)
              [] OTHER ->
                   InvokeOrComplain("ISNewBLOB", dev, name,
                                    CollectBLOBs(root.children, NoPairs),
                                    ": newBLOBVector with no valid members", cache, msg0)

\* Lines 297-482, reached once the property is known and not read-only.
DispatchByTag(root, dev, name, cache, msg0) ==
    CASE root.tag = "newNumberVector" ->
            InvokeOrComplain("ISNewNumber", dev, name,
                             CollectNumbers(root.children, dev, name, NoPairs),
                             ": newNumberVector with no valid members", cache, msg0)
      [] root.tag = "newSwitchVector" ->
            InvokeOrComplain("ISNewSwitch", dev, name,
                             CollectSwitches(root.children, dev, name, NoPairs),
                             ": newSwitchVector with no valid members", cache, msg0)
      [] root.tag = "newTextVector" ->
            InvokeOrComplain("ISNewText", dev, name,
                             CollectTexts(root.children, NoPairs),
                             ": set with no valid members", cache, msg0)
      [] root.tag = "newBLOBVector" ->
            InvokeOrComplain("ISNewBLOB", dev, name,
                             CollectBLOBs(root.children, NoPairs),
                             ": newBLOBVector with no valid members", cache, msg0)
      [] OTHER -> Outcome(1, "Unknown command: " \o root.tag, <<>>, <<>>, cache, <<>>)

\* Lines 180-483.
dispatch(root, cache, msg0) ==
    IF root.tag = "getProperties" THEN DispatchGetProperties(root, cache, msg0)
    ELSE IF root.tag \in SnoopTags
    THEN Outcome(0, msg0, <<[fn |-> "ISSnoopDevice", root |-> root]>>, <<>>, cache, <<>>)
    ELSE IF crackDN(root).ret < 0
    THEN Outcome(-1, crackDN(root).msg, <<>>, <<>>, cache, <<>>)
    ELSE LET dev == root.device[1]
             name == root.name[1]
         IN IF rosc_find(cache, name, dev) = 0
            THEN Outcome(-1, "Property " \o name \o " is not defined in " \o dev \o ".",
                         <<>>, <<>>, cache, <<>>)
            ELSE IF ReadOnlyScan(cache, name, dev)
            THEN Outcome(-1, "Cannot set read-only property " \o name, <<>>, <<>>,
                         cache, <<>>)
            ELSE DispatchByTag(root, dev, name, cache, msg0)

(***************************************************************************)
(* SpecDispatch: the driver defines its vectors; the reader parses inbound *)
(* elements (root first, then child by child) and hands each to dispatch.  *)
(***************************************************************************)
Option(S) == {<<>>} \cup {<<x>> : x \in S}

Child(tag, name, body) ==
    [tag |-> tag, name |-> name, body |-> body, format |-> <<>>, size |-> <<>>,
     enclen |-> <<>>]

BLOBChild(name, format, size, enclen, body) ==
    [tag |-> "oneBLOB", name |-> name, body |-> body, format |-> format,
     size |-> size, enclen |-> enclen]

\* The children a peer sends inside each new<Kind>Vector: well-formed ones,
\* ones with a body that does not parse, one without name, one foreign tag,
\* and a number naming no member of any vector.
ChildrenOf(tag) ==
    CASE tag = "newNumberVector" ->
            {Child("oneNumber", <<"A">>, <<"1">>), Child("oneNumber", <<"B">>, <<"2">>),
             Child("oneNumber", <<"A">>, <<"x">>), Child("oneNumber", <<>>, <<"1">>),
             Child("oneNumber", <<UnknownName>>, <<"1">>),
             Child("oneText", <<"A">>, <<"1">>)}
      [] tag = "newSwitchVector" ->
            {Child("oneSwitch", <<"A">>, <<"O", "n">>),
             Child("oneSwitch", <<"B">>, <<"O", "f", "f">>),
             Child("oneSwitch", <<"A">>, <<"O", "n", "e">>),
             Child("oneSwitch", <<"B">>, <<"O", "f", "f", "s">>),
             Child("oneSwitch", <<>>, <<"O", "n">>),
             Child("oneNumber", <<"A">>, <<"O", "n">>)}
      [] tag = "newTextVector" ->
            {Child("oneText", <<"A">>, <<"x">>), Child("oneText", <<"B">>, <<>>),
             Child("oneText", <<>>, <<"x">>), Child("oneSwitch", <<"A">>, <<"x">>)}
      [] tag = "newBLOBVector" ->
            {BLOBChild(<<"A">>, <<".fits">>, <<3>>, <<>>, <<"Q", "U", "J", "D">>),
             BLOBChild(<<"B">>, <<".fits">>, <<3>>, <<4>>, <<"Q", "U", "J", "D", "\n">>),
             BLOBChild(<<"A">>, <<>>, <<3>>, <<>>, <<"Q", "U", "J", "D">>),
             Child("oneText", <<"A">>, <<"x">>)}
      [] OTHER -> {}

Tags == {"getProperties"} \cup SnoopTags \cup NewTags \cup {"enableBLOB"}

Versions == {INDIV - 1, INDIV, INDIV + 1}

InitApplyIdle ==
    /\ vp = [kind |-> "none"]
    /\ pre = [kind |-> "none"]
    /\ batch = <<>>

InitDispatch ==
    /\ InitDispatchIdle
    /\ InitApplyIdle
    /\ ret = 0
    /\ returned = TRUE
    /\ emitted = <<>>
    /\ InitBlobIdle

Running == exitCode = <<>>

\* Between two inbound elements the driver defines a vector: a call of
\* IDDefNumber / IDDefSwitch / IDDefText / IDDefBLOB.
DefVector(kind) ==
    /\ Running /\ returned
    /\ \E v \in DriverVectors :
          /\ v.kind = kind
          /\ LET d == IDDef(propCache, v)
             IN /\ propCache' = d.cache
                /\ emitted' = d.emitted
    /\ request' = [tag |-> "none"]
    /\ msg' = ""
    /\ callbacks' = <<>>
    /\ ret' = 0
    /\ UNCHANGED <<exitCode, returned, vp, pre, batch, blobVars, regVars,
                   configVars>>

IDDefNumber == DefVector(INDI_NUMBER)
IDDefSwitch == DefVector(INDI_SWITCH)
IDDefText == DefVector(INDI_TEXT)
IDDefBLOB == DefVector(INDI_BLOB)

IDDefLight ==
    /\ Running /\ returned
    /\ \E v \in DriverVectors :
          /\ v.kind = INDI_LIGHT
          /\ LET d == IDDefLightVA(propCache, v)
             IN /\ propCache' = d.cache
                /\ emitted' = d.emitted
    /\ request' = [tag |-> "none"]
    /\ msg' = ""
    /\ callbacks' = <<>>
    /\ ret' = 0
    /\ UNCHANGED <<exitCode, returned, vp, pre, batch, blobVars, regVars,
                   configVars>>

\* The reader has the opening tag of the next element; the caller's msg
\* buffer is fresh.
ReadElement ==
    /\ Running /\ returned
    /\ \E t \in Tags :
          request' = [tag |-> t, version |-> <<>>, device |-> <<>>, name |-> <<>>,
                      children |-> <<>>]
    /\ returned' = FALSE
    /\ msg' = ""
    /\ callbacks' = <<>>
    /\ emitted' = <<>>
    /\ ret' = 0
    /\ UNCHANGED <<propCache, exitCode, vp, pre, batch, blobVars, regVars,
                   configVars>>

\* The reader has one more attribute of the opening tag; version is sent
\* with getProperties only.
ReadAttribute ==
    /\ Running /\ ~returned
    /\ request.children = <<>>
    /\ \/ /\ request.tag = "getProperties" /\ request.version = <<>>
          /\ \E v \in Versions : request' = [request EXCEPT !.version = <<v>>]
       \/ /\ request.device = <<>>
          /\ \E d \in Devices : request' = [request EXCEPT !.device = <<d>>]
       \/ /\ request.name = <<>>
          /\ \E n \in PropNames : request' = [request EXCEPT !.name = <<n>>]
    /\ UNCHANGED <<propCache, msg, callbacks, exitCode, ret, returned, emitted,
                   vp, pre, batch, blobVars, regVars,
                   configVars>>

ReadChild ==
    /\ Running /\ ~returned
    /\ Len(request.children) < MaxChildren
    /\ \E ep \in ChildrenOf(request.tag) :
          request' = [request EXCEPT !.children = Append(@, ep)]
    /\ UNCHANGED <<propCache, msg, callbacks, exitCode, ret, returned, emitted,
                   vp, pre, batch, blobVars, regVars,
                   configVars>>

Dispatch ==
    /\ Running /\ ~returned
    /\ LET o == dispatch(request, propCache, msg)
       IN /\ ret' = o.ret
          /\ msg' = o.msg
          /\ callbacks' = o.callbacks
          /\ emitted' = o.emitted
          /\ propCache' = o.cache
          /\ exitCode' = o.exit
    /\ returned' = TRUE
    /\ UNCHANGED <<request, vp, pre, batch, blobVars, regVars,
                   configVars>>

NextDispatch ==
    \/ IDDefNumber
    \/ IDDefSwitch
    \/ IDDefText
    \/ IDDefBLOB
    \/ IDDefLight
    \/ ReadElement
    \/ ReadAttribute
    \/ ReadChild
    \/ Dispatch

SpecDispatch == InitDispatch /\ [][NextDispatch]_vars

(***************************************************************************)
(* Properties of dispatch (SpecDispatch)                                   *)
(***************************************************************************)
NewVectorFor(dev, name) ==
    /\ returned
    /\ request.tag \in NewTags
    /\ request.device = <<dev>>
    /\ request.name = <<name>>

Registered(dev, name) ==
    \E i \in 1..Len(propCache) :
        propCache[i].devName = dev /\ propCache[i].propName = name

RegisteredReadOnly(dev, name) ==
    \E i \in 1..Len(propCache) :
        /\ propCache[i].devName = dev /\ propCache[i].propName = name
        /\ propCache[i].perm = IP_RO

\* C1: whatever IDDef* calls came before, a newNumberVector, newSwitchVector,
\* newTextVector or newBLOBVector naming a (device, name) whose cache entry is
\* read-only returns -1 with "Cannot set read-only property <name>" and no
\* driver callback is invoked.
C1_ReadOnlyRejected ==
    \A dev \in Devices, name \in PropNames :
        (NewVectorFor(dev, name) /\ RegisteredReadOnly(dev, name))
            => /\ ret = -1
               /\ msg = "Cannot set read-only property " \o name
               /\ callbacks = <<>>

C1_Witness ==
    \E dev \in Devices, name \in PropNames :
        /\ NewVectorFor(dev, name) /\ RegisteredReadOnly(dev, name)
        /\ Len(propCache) >= 2 /\ propCache[1].perm # IP_RO
        /\ Len(request.children) >= 1

\* C2: a new<Kind>Vector naming a (device, name) that is not in the cache
\* returns -1 with exactly "Property <name> is not defined in <device>." and
\* no driver callback is invoked.
C2_UndefinedRejected ==
    \A dev \in Devices, name \in PropNames :
        (NewVectorFor(dev, name) /\ ~Registered(dev, name))
            => /\ ret = -1
               /\ msg = "Property " \o name \o " is not defined in " \o dev \o "."
               /\ callbacks = <<>>

C2_Witness ==
    \E dev \in Devices, name \in PropNames :
        /\ NewVectorFor(dev, name) /\ ~Registered(dev, name)
        /\ \E i \in 1..Len(propCache) :
              propCache[i].propName = name /\ propCache[i].perm # IP_RO
        /\ Len(request.children) >= 1

(***************************************************************************)
(* IDSetBLOBVA, step by step.  Positions of a thread:                      *)
(*   idle   not inside the call                                            *)
(*   check  line 1292, about to test lastBlobPingUid                       *)
(*   format line 1293, about to print lastBlobPingUid into buffer          *)
(*   wait   line 1294, inside waitPingReply(buffer)                        *)
(*   init   line 1298, driverio_init: takes the writer mutex               *)
(*   set    line 1301, writes the setBLOBVector                            *)
(*   bump   line 1304, lastBlobPingUid++                                   *)
(*   ping   lines 1305-1306, writes the pingRequest                        *)
(*   finish line 1308, driverio_finish: releases the writer mutex          *)
(***************************************************************************)
\* BLOB_PING_PATTERN "SetBLOB/%ld"
BlobPingUid(n) == <<"SetBLOB", n>>

BlobVectors == {"CCD1", "CCD2"}

InCallBeforeBump == {"check", "format", "wait", "init", "set", "bump"}

\* IDSetBLOB calls begun so far: each completed one bumped the counter once.
CallsBegun == lastBlobPingUid + Cardinality({t \in threads : pc[t] \in InCallBeforeBump})

\* A test that never sends the caller to wait.
NeverWait(uid) == FALSE

\* if (lastBlobPingUid), line 1292
MustWait(uid) == uid # 0

InitBlob(n) ==
    /\ threads = 1..n
    /\ pc = [t \in 1..n |-> "idle"]
    /\ seenUid = [t \in 1..n |-> 0]
    /\ lastBlobPingUid = 0
    /\ stdoutOwner = 0
    /\ stream = <<>>
    /\ awaited = <<>>
    /\ inFlight = {}
    /\ pingReplies = {}
    /\ InitDispatchIdle
    /\ InitApplyIdle
    /\ ret = 0
    /\ returned = TRUE
    /\ emitted = <<>>

Goto(t, where) ==
    /\ pc' = [pc EXCEPT ![t] = where]
    /\ UNCHANGED <<threads, applyVars, dispatchVars>>

\* A driver thread calls IDSetBLOB: nothing is awaited yet.
BlobCall(t) ==
    /\ pc[t] = "idle"
    /\ CallsBegun < MaxBlobCalls
    /\ Goto(t, "check")
    /\ seenUid' = [seenUid EXCEPT ![t] = 0]
    /\ UNCHANGED <<lastBlobPingUid, stdoutOwner, stream, awaited, inFlight, pingReplies>>

BlobCheck(t) ==
    /\ pc[t] = "check"
    /\ Goto(t, IF MustWait(lastBlobPingUid) THEN "format" ELSE "init")
    /\ UNCHANGED <<seenUid, lastBlobPingUid, stdoutOwner, stream, awaited, inFlight,
                   pingReplies>>

\* Formats the id before the last one into buffer.
BlobFormatPrevious(t) ==
    /\ pc[t] = "format"
    /\ seenUid' = [seenUid EXCEPT ![t] = lastBlobPingUid - 1]
    /\ Goto(t, "wait")
    /\ UNCHANGED <<lastBlobPingUid, stdoutOwner, stream, awaited, inFlight, pingReplies>>

BlobFormat(t) ==
    /\ pc[t] = "format"
    /\ seenUid' = [seenUid EXCEPT ![t] = lastBlobPingUid]
    /\ Goto(t, "wait")
    /\ UNCHANGED <<lastBlobPingUid, stdoutOwner, stream, awaited, inFlight, pingReplies>>

\* waitPingReply(uid) returns once the reader has observed the pingReply
\* carrying uid.
waitPingReply(uid) == uid \in pingReplies

\* driverio_init blocks until the writer mutex is free.
WriterMutexFree == stdoutOwner = 0

\* A wait that gives up: returns without the pingReply.
BlobWaitTimesOut(t) ==
    /\ pc[t] = "wait"
    /\ Goto(t, "init")
    /\ UNCHANGED <<seenUid, lastBlobPingUid, stdoutOwner, stream, awaited, inFlight,
                   pingReplies>>

BlobWait(t) ==
    /\ pc[t] = "wait"
    /\ waitPingReply(BlobPingUid(seenUid[t]))
    /\ Goto(t, "init")
    /\ UNCHANGED <<seenUid, lastBlobPingUid, stdoutOwner, stream, awaited, inFlight,
                   pingReplies>>

BlobInit(t) ==
    /\ pc[t] = "init"
    /\ WriterMutexFree
    /\ stdoutOwner' = t
    /\ Goto(t, "set")
    /\ UNCHANGED <<seenUid, lastBlobPingUid, stream, awaited, inFlight, pingReplies>>

BlobSet(t) ==
    /\ pc[t] = "set"
    /\ \E bvp \in BlobVectors :
          stream' = Append(stream, [tag |-> "setBLOBVector", name |-> bvp])
    /\ awaited' = Append(awaited, seenUid[t])
    /\ Goto(t, "bump")
    /\ UNCHANGED <<seenUid, lastBlobPingUid, stdoutOwner, inFlight, pingReplies>>

\* lastBlobPingUid += 2 instead of ++.
BlobBumpByTwo(t) ==
    /\ pc[t] = "bump"
    /\ lastBlobPingUid' = lastBlobPingUid + 2
    /\ Goto(t, "ping")
    /\ UNCHANGED <<seenUid, stdoutOwner, stream, awaited, inFlight, pingReplies>>

BlobBump(t) ==
    /\ pc[t] = "bump"
    /\ lastBlobPingUid' = lastBlobPingUid + 1
    /\ Goto(t, "ping")
    /\ UNCHANGED <<seenUid, stdoutOwner, stream, awaited, inFlight, pingReplies>>

BlobPing(t) ==
    /\ pc[t] = "ping"
    /\ stream' = Append(stream, [tag |-> "pingRequest", name |-> BlobPingUid(lastBlobPingUid)])
    /\ Goto(t, "finish")
    /\ UNCHANGED <<seenUid, lastBlobPingUid, stdoutOwner, awaited, inFlight, pingReplies>>

BlobFinish(t) ==
    /\ pc[t] = "finish"
    /\ stdoutOwner' = 0
    /\ Goto(t, "idle")
    /\ UNCHANGED <<seenUid, lastBlobPingUid, stream, awaited, inFlight, pingReplies>>

PingsIn(str) == {str[i].name : i \in {j \in 1..Len(str) : str[j].tag = "pingRequest"}}

\* The peer answers a pingRequest written to the stream, once.
PeerReply ==
    /\ \E uid \in PingsIn(stream) \ (inFlight \cup pingReplies) :
          inFlight' = inFlight \cup {uid}
    /\ UNCHANGED <<threads, pc, seenUid, lastBlobPingUid, stdoutOwner, stream, awaited,
                   pingReplies, applyVars, dispatchVars>>

\* The reader thread takes a pingReply off the inbound stream.
ObservePingReply ==
    /\ \E uid \in inFlight :
          /\ inFlight' = inFlight \ {uid}
          /\ pingReplies' = pingReplies \cup {uid}
    /\ UNCHANGED <<threads, pc, seenUid, lastBlobPingUid, stdoutOwner, stream, awaited,
                   applyVars, dispatchVars>>

NextBlob ==
    \/ \E t \in threads : BlobCall(t)
    \/ \E t \in threads : BlobCheck(t)
    \/ \E t \in threads : BlobFormat(t)
    \/ \E t \in threads : BlobWait(t)
    \/ \E t \in threads : BlobInit(t)
    \/ \E t \in threads : BlobSet(t)
    \/ \E t \in threads : BlobBump(t)
    \/ \E t \in threads : BlobPing(t)
    \/ \E t \in threads : BlobFinish(t)
    \/ PeerReply
    \/ ObservePingReply

InitBlob1 == InitBlob(1)
InitBlobN == InitBlob(NumThreads)

SpecBlob1 == InitBlob1 /\ [][NextBlob]_vars
SpecBlobN == InitBlobN /\ [][NextBlob]_vars

(***************************************************************************)
(* Properties of the BLOB pacing (SpecBlob1, SpecBlobN)                    *)
(***************************************************************************)
Unacknowledged == PingsIn(stream) \ pingReplies

PingCount == Cardinality({i \in 1..Len(stream) : stream[i].tag = "pingRequest"})

\* Every pingRequest written before the setBLOBVector at position i has been
\* answered and its pingReply observed.
EarlierPingsObserved(i) ==
    \A j \in 1..(i - 1) :
        stream[j].tag = "pingRequest" => stream[j].name \in pingReplies

\* C9: with one thread calling IDSetBLOB at most one written pingRequest is
\* unacknowledged in every reachable state; the first call awaits nothing and
\* the setBLOBVector of call k+1 is written only after the pingReply for the
\* pingRequest of call k has been observed.
C9_OneUnacknowledgedPing ==
    /\ Cardinality(Unacknowledged) <= 1
    /\ \A i \in 1..Len(stream) :
          stream[i].tag = "setBLOBVector" => EarlierPingsObserved(i)
    /\ \A k \in 1..Len(awaited) : awaited[k] = k - 1

C9_Witness ==
    /\ Len(awaited) >= 3
    /\ Cardinality(Unacknowledged) = 1
    /\ PingCount >= 3

\* C10: with several threads calling IDSetBLOB, under every interleaving at
\* most one pingRequest is unacknowledged, no two setBLOBVector elements are
\* written against the same awaited ping id, and all ping uids differ.
C10_ConcurrentPacing ==
    /\ Cardinality(Unacknowledged) <= 1
    /\ \A i, j \in 1..Len(awaited) : i # j => awaited[i] # awaited[j]
    /\ Cardinality(PingsIn(stream)) = PingCount

(***************************************************************************)
(* The outbound stream of sequential IDSetBLOB calls (SpecBlob1)           *)
(***************************************************************************)
\* The thread has bumped the counter and not yet written the pingRequest.
BumpedNotPinged == Cardinality({t \in threads : pc[t] = "ping"})

\* C11: the stream written by sequential IDSetBLOB calls is setBLOBVector,
\* pingRequest SetBLOB/1, setBLOBVector, pingRequest SetBLOB/2, ... : odd
\* positions hold a setBLOBVector, position 2k holds the pingRequest with uid
\* SetBLOB/k, the counter equals the number of calls that passed line 1304,
\* and call k+1 awaited the id k written by call k (the first awaited none).
C11_SequentialStream ==
    /\ \A i \in 1..Len(stream) :
          IF i % 2 = 1
          THEN stream[i].tag = "setBLOBVector"
          ELSE stream[i] = [tag |-> "pingRequest", name |-> <<"SetBLOB", i \div 2>>]
    /\ lastBlobPingUid = PingCount + BumpedNotPinged
    /\ Len(awaited) = (Len(stream) + 1) \div 2
    /\ \A k \in 1..Len(awaited) :
          /\ awaited[k] = k - 1
          /\ k > 1 => stream[2 * (k - 1)].name = <<"SetBLOB", awaited[k]>>

C11_Witness ==
    /\ Len(stream) = 2 * MaxBlobCalls
    /\ \A t \in threads : pc[t] = "idle"
    /\ awaited[MaxBlobCalls] = MaxBlobCalls - 1

(***************************************************************************)
(* The pending ping id after its acknowledgement (SpecBlob1)               *)
(***************************************************************************)
Acknowledged(p) == BlobPingUid(p) \in pingReplies

Caller == 1

BlobStep(t) ==
    \/ BlobCheck(t)
    \/ BlobFormat(t)
    \/ BlobWait(t)
    \/ BlobInit(t)
    \/ BlobSet(t)
    \/ BlobBump(t)
    \/ BlobPing(t)
    \/ BlobFinish(t)

FairBlob ==
    /\ WF_vars(BlobStep(Caller))
    /\ WF_vars(PeerReply)
    /\ WF_vars(ObservePingReply)

SpecBlobFair == InitBlob1 /\ [][NextBlob]_vars /\ FairBlob

DefinedBy(v) ==
    /\ request'.tag = "none"
    /\ emitted' = <<DefElement(v)>>
    /\ v.kind # INDI_LIGHT

\* A new<Kind>Vector element for (dev, name) without children.
NewElement(tag, dev, name) ==
    [tag |-> tag, version |-> <<>>, device |-> <<dev>>, name |-> <<name>>,
     children |-> <<>>]

\* C14: a call of IDDef<Kind> for a vector whose (device, name) is already in
\* the cache leaves the cache as it was, whatever the vector's permission,
\* kind and address; a key first registered read-only is still rejected by
\* dispatch after a vector with another permission was defined under it.
C14_RegisterOnceIdempotent ==
    [][ \A v \in DriverVectors :
            (DefinedBy(v) /\ Registered(v.device, v.name)) =>
                /\ propCache' = propCache
                /\ RegisteredReadOnly(v.device, v.name) =>
                      \A tag \in NewTags :
                          LET o == dispatch(NewElement(tag, v.device, v.name),
                                            propCache', "")
                          IN /\ o.ret = -1
                             /\ o.msg = "Cannot set read-only property " \o v.name
                             /\ o.callbacks = <<>>
      ]_vars

\* Cam/P was registered read-only by the number vector, then the read-write
\* switch vector of the same key was defined.
C14_Witness ==
    /\ request.tag = "none"
    /\ \E v \in DriverVectors :
          /\ emitted = <<DefElement(v)>>
          /\ v.p = IP_RW
          /\ \E i \in 1..Len(propCache) :
                /\ propCache[i].devName = v.device /\ propCache[i].propName = v.name
                /\ propCache[i].perm = IP_RO /\ propCache[i].ptr # v.ptr
                /\ propCache[i].type # v.kind

(***************************************************************************)
(* SpecRegistry: the cache under concurrent callers.  Threads 1..NumThreads *)
(* are driver threads calling IDDefNumber / IDDefSwitch / IDDefText /      *)
(* IDDefBLOB; thread Reader runs dispatch.  Positions of a thread:         *)
(*   idle    not inside a call                                             *)
(*   lock    line 110 / 216 / 273, pthread_mutex_lock(&rosc_mutex)         *)
(*   find    line 112 / 217 / 274, rosc_find                               *)
(*   add     line 113, rosc_add: rosc_new reallocs the array               *)
(*   unlock  line 115 / 219 / 276 / 280, pthread_mutex_unlock              *)
(*   deref   line 224, reads prop->type and prop->ptr, mutex not held      *)
(*   scan    line 283, loop test i < nPropCache, loads propCache           *)
(*   scanread lines 285-287, reads propCache[i], mutex not held            *)
(***************************************************************************)
Reader == NumThreads + 1

DriverThreads == 1..NumThreads

\* The vectors of one device: two of them share their (device, name).
RegisteredVectors == {v \in DriverVectors : v.kind # INDI_LIGHT /\ v.device = "Cam"}

RegistryKeys == {<<v.device, v.name>> : v \in RegisteredVectors}

NoLocals == [op |-> "none", ptr |-> 0, kind |-> "none", dev |-> "", name |-> "",
             prop |-> 0, base |-> 0, i |-> 0]

InitRegistry ==
    /\ propCache = <<>>
    /\ request = [tag |-> "none"]
    /\ msg = ""
    /\ callbacks = <<>>
    /\ exitCode = <<>>
    /\ roscOwner = 0
    /\ propCacheBase = 0
    /\ written = {}
    /\ InitConfigIdle
    /\ threads = 1..Reader
    /\ pc = [t \in 1..Reader |-> "idle"]
    /\ local = [t \in 1..Reader |-> NoLocals]
    /\ seenUid = <<>>
    /\ lastBlobPingUid = 0
    /\ stdoutOwner = 0
    /\ stream = <<>>
    /\ awaited = <<>>
    /\ inFlight = {}
    /\ pingReplies = {}
    /\ InitApplyIdle
    /\ ret = 0
    /\ returned = TRUE
    /\ emitted = <<>>

\* What a step that writes a def element leaves alone.
RegWriteFrame ==
    UNCHANGED <<threads, seenUid, lastBlobPingUid, stdoutOwner, stream, awaited,
                inFlight, pingReplies, applyVars, request, msg, callbacks, exitCode,
                configVars>>

RegFrame == RegWriteFrame /\ UNCHANGED written

\* A definition that calls rosc_add_unique before its element is written.
RegCallBeforeWriting(t) ==
    /\ t \in DriverThreads
    /\ pc[t] = "idle"
    /\ \E v \in RegisteredVectors :
          local' = [local EXCEPT ![t] = [NoLocals EXCEPT !.op = "def", !.ptr = v.ptr,
                                                         !.kind = v.kind,
                                                         !.dev = v.device,
                                                         !.name = v.name]]
    /\ pc' = [pc EXCEPT ![t] = "lock"]
    /\ UNCHANGED <<propCache, roscOwner, propCacheBase>>
    /\ RegFrame

\* IDDef<Kind>VA up to its call of rosc_add_unique: the def element has been
\* written.
RegCall(t) ==
    /\ t \in DriverThreads
    /\ pc[t] = "idle"
    /\ \E v \in RegisteredVectors :
          /\ written' = written \cup {v.ptr}
          /\ local' = [local EXCEPT ![t] = [NoLocals EXCEPT !.op = "def", !.ptr = v.ptr,
                                                            !.kind = v.kind,
                                                            !.dev = v.device,
                                                            !.name = v.name]]
    /\ pc' = [pc EXCEPT ![t] = "lock"]
    /\ UNCHANGED <<propCache, roscOwner, propCacheBase>>
    /\ RegWriteFrame

\* dispatch of getProperties with device and name, lines 214-216.
RdGetProperties ==
    /\ pc[Reader] = "idle"
    /\ \E k \in RegistryKeys :
          local' = [local EXCEPT ![Reader] = [NoLocals EXCEPT !.op = "getProperties",
                                                              !.dev = k[1],
                                                              !.name = k[2]]]
    /\ pc' = [pc EXCEPT ![Reader] = "lock"]
    /\ UNCHANGED <<propCache, roscOwner, propCacheBase>>
    /\ RegFrame

\* dispatch of a new<Kind>Vector whose device and name were cracked, lines
\* 270-273.
RdNewVector ==
    /\ pc[Reader] = "idle"
    /\ \E k \in RegistryKeys :
          local' = [local EXCEPT ![Reader] = [NoLocals EXCEPT !.op = "newVector",
                                                              !.dev = k[1],
                                                              !.name = k[2]]]
    /\ pc' = [pc EXCEPT ![Reader] = "lock"]
    /\ UNCHANGED <<propCache, roscOwner, propCacheBase>>
    /\ RegFrame

\* A lock that does not wait for the mutex.
RegLockNoWait(t) ==
    /\ pc[t] = "lock"
    /\ roscOwner' = t
    /\ pc' = [pc EXCEPT ![t] = "find"]
    /\ UNCHANGED <<propCache, local, propCacheBase>>
    /\ RegFrame

RegLock(t) ==
    /\ pc[t] = "lock"
    /\ roscOwner = 0
    /\ roscOwner' = t
    /\ pc' = [pc EXCEPT ![t] = "find"]
    /\ UNCHANGED <<propCache, local, propCacheBase>>
    /\ RegFrame

\* rosc_find: the result points into the array as it is now.
RegFind(t) ==
    /\ pc[t] = "find"
    /\ LET prop == rosc_find(propCache, local[t].name, local[t].dev)
       IN /\ local' = IF local[t].op = "def" THEN local
                       ELSE [local EXCEPT ![t].prop = prop, ![t].base = propCacheBase]
          /\ pc' = [pc EXCEPT ![t] = IF local[t].op = "def" /\ prop = 0
                                      THEN "add" ELSE "unlock"]
    /\ UNCHANGED <<propCache, roscOwner, propCacheBase>>
    /\ RegFrame

\* rosc_add: realloc either extends the array in place or moves it and frees
\* the old one.
RegAdd(t) ==
    /\ pc[t] = "add"
    /\ propCache' = rosc_add(propCache, local[t].name, local[t].dev,
                             VectorAt(local[t].ptr).p, local[t].ptr, local[t].kind)
    /\ \E moved \in BOOLEAN :
          propCacheBase' = IF moved THEN propCacheBase + 1 ELSE propCacheBase
    /\ pc' = [pc EXCEPT ![t] = "unlock"]
    /\ UNCHANGED <<roscOwner, local>>
    /\ RegFrame

\* pthread_mutex_unlock, and where the caller goes next: rosc_add_unique
\* returns; dispatch returns when the lookup found nothing (lines 221-222,
\* 274-279), else reads the entry (line 224) or starts the scan (line 283).
RegUnlock(t) ==
    /\ pc[t] = "unlock"
    /\ roscOwner' = 0
    /\ IF local[t].op = "def" \/ local[t].prop = 0
       THEN /\ pc' = [pc EXCEPT ![t] = "idle"]
            /\ local' = [local EXCEPT ![t] = NoLocals]
       ELSE IF local[t].op = "getProperties"
       THEN /\ pc' = [pc EXCEPT ![t] = "deref"]
            /\ local' = local
       ELSE /\ pc' = [pc EXCEPT ![t] = "scan"]
            /\ local' = [local EXCEPT ![t].i = 1, ![t].prop = 0, ![t].base = 0]
    /\ UNCHANGED <<propCache, propCacheBase>>
    /\ RegFrame

\* The entry behind a pointer taken at address base: the entry itself while
\* the array is still there, anything once the array was moved and freed.
EntryThrough(base, i) ==
    IF base = propCacheBase /\ i \in 1..Len(propCache)
    THEN {propCache[i]}
    ELSE {[propName |-> v.name, devName |-> v.device, perm |-> v.p, ptr |-> v.ptr,
           type |-> v.kind] : v \in RegisteredVectors}

\* Lines 224-245: switch (prop->type) and the call of IDDef<Kind> with
\* prop->ptr, which goes on to rosc_add_unique.
RdDeref ==
    /\ pc[Reader] = "deref"
    /\ \E e \in EntryThrough(local[Reader].base, local[Reader].prop) :
          /\ written' = written \cup {e.ptr}
          /\ local' = [local EXCEPT ![Reader] =
                          [NoLocals EXCEPT !.op = "def", !.ptr = e.ptr, !.kind = e.type,
                                           !.dev = VectorAt(e.ptr).device,
                                           !.name = VectorAt(e.ptr).name]]
    /\ pc' = [pc EXCEPT ![Reader] = "lock"]
    /\ UNCHANGED <<propCache, roscOwner, propCacheBase>>
    /\ RegWriteFrame

\* Line 283: i < nPropCache, and the load of propCache for propCache[i].
RdScan ==
    /\ pc[Reader] = "scan"
    /\ IF local[Reader].i <= Len(propCache)
       THEN /\ local' = [local EXCEPT ![Reader].base = propCacheBase]
            /\ pc' = [pc EXCEPT ![Reader] = "scanread"]
       ELSE /\ local' = [local EXCEPT ![Reader] = NoLocals]
            /\ pc' = [pc EXCEPT ![Reader] = "idle"]
    /\ UNCHANGED <<propCache, roscOwner, propCacheBase>>
    /\ RegFrame

\* Lines 285-294: the entry is compared; a match ends the loop.
RdScanRead ==
    /\ pc[Reader] = "scanread"
    /\ \E e \in EntryThrough(local[Reader].base, local[Reader].i) :
          IF e.propName = local[Reader].name /\ e.devName = local[Reader].dev
          THEN /\ pc' = [pc EXCEPT ![Reader] = "idle"]
               /\ local' = [local EXCEPT ![Reader] = NoLocals]
          ELSE /\ pc' = [pc EXCEPT ![Reader] = "scan"]
               /\ local' = [local EXCEPT ![Reader].i = @ + 1, ![Reader].base = 0]
    /\ UNCHANGED <<propCache, roscOwner, propCacheBase>>
    /\ RegFrame

NextRegistry ==
    \/ \E t \in threads : RegCall(t)
    \/ RdGetProperties
    \/ RdNewVector
    \/ \E t \in threads : RegLock(t)
    \/ \E t \in threads : RegFind(t)
    \/ \E t \in threads : RegAdd(t)
    \/ \E t \in threads : RegUnlock(t)
    \/ RdDeref
    \/ RdScan
    \/ RdScanRead

SpecRegistry == InitRegistry /\ [][NextRegistry]_vars

(***************************************************************************)
(* Properties of the cache under concurrency (SpecRegistry)                *)
(***************************************************************************)
KeysUnique ==
    \A i, j \in 1..Len(propCache) :
        (propCache[i].propName = propCache[j].propName
            /\ propCache[i].devName = propCache[j].devName) => i = j

\* C15: under every interleaving of IDDefNumber / IDDefSwitch / IDDefText /
\* IDDefBLOB calls from several threads (and of dispatch), no two entries of
\* the cache have the same (device, name), the number of entries never
\* decreases and an entry once written is never changed.
C15_UniqueKeysInsertOnly ==
    /\ []KeysUnique
    /\ [][ /\ Len(propCache') >= Len(propCache)
           /\ \A i \in 1..Len(propCache) : propCache'[i] = propCache[i]
         ]_vars

\* Two threads register different vectors under one key at the same time:
\* one is about to add the entry, the other waits for the mutex.
C15_Witness ==
    \E t, u \in DriverThreads :
        /\ pc[t] = "add" /\ pc[u] = "lock"
        /\ local[t].dev = local[u].dev /\ local[t].name = local[u].name
        /\ local[t].ptr # local[u].ptr
        /\ Len(propCache) >= 1

\* C16: whenever dispatch reads a cache entry without holding the mutex (the
\* entry returned by the lookup of the getProperties branch, the entries
\* scanned by the read-only check), the array it reads through is still the
\* array of the cache: no registration on another thread has moved it.
C16_NoStaleEntryRead ==
    pc[Reader] \in {"deref", "scanread"} => local[Reader].base = propCacheBase

(***************************************************************************)
(* SpecEmit: between inbound elements the driver calls any of its          *)
(* emitters: IDDef<Kind>, IDSet<Kind>, IDDelete, IDMessage, IDSnoopDevice, *)
(* IDSnoopBLOBs.  emitted holds what the call wrote.                       *)
(***************************************************************************)
SetElement(v) ==
    [tag |-> "set" \o (IF v.kind = INDI_BLOB THEN "BLOB" ELSE v.kind) \o "Vector",
     device |-> v.device, name |-> v.name, ptr |-> v.ptr]

\* What every emitter call leaves behind apart from what it wrote.
EmitterReturns ==
    /\ request' = [tag |-> "none"]
    /\ msg' = ""
    /\ callbacks' = <<>>
    /\ ret' = 0
    /\ UNCHANGED <<exitCode, returned, vp, pre, batch, regVars, configVars>>

\* IDSetTextVA / IDSetNumberVA / IDSetSwitchVA / IDSetLightVA.
SetVector(kind) ==
    /\ Running /\ returned
    /\ \E v \in DriverVectors :
          /\ v.kind = kind
          /\ emitted' = <<SetElement(v)>>
    /\ EmitterReturns
    /\ UNCHANGED <<propCache, blobVars>>

IDSetNumberCall == SetVector(INDI_NUMBER)
IDSetSwitchCall == SetVector(INDI_SWITCH)
IDSetTextCall == SetVector(INDI_TEXT)
IDSetLight == SetVector(INDI_LIGHT)

\* IDSetBLOBVA called by the one driver thread, from entry to return: the
\* pingReply it waited for, if any, has been observed.
IDSetBLOB ==
    /\ Running /\ returned
    /\ lastBlobPingUid < MaxBlobCalls
    /\ \E v \in DriverVectors :
          /\ v.kind = INDI_BLOB
          /\ emitted' = <<SetElement(v),
                          [tag |-> "pingRequest",
                           name |-> BlobPingUid(lastBlobPingUid + 1)]>>
    /\ pingReplies' = IF MustWait(lastBlobPingUid)
                      THEN pingReplies \cup {BlobPingUid(lastBlobPingUid)}
                      ELSE pingReplies
    /\ lastBlobPingUid' = lastBlobPingUid + 1
    /\ EmitterReturns
    /\ UNCHANGED <<propCache, threads, pc, seenUid, stdoutOwner, stream, awaited,
                   inFlight>>

DelElement(dev, name) == [tag |-> "delProperty", device |-> dev, name |-> name]

\* An IDDelete that also drops the property from the cache.
IDDeleteRevokes ==
    /\ Running /\ returned
    /\ \E dev \in Devices, name \in Option(PropNames) :
          /\ emitted' = <<DelElement(dev, name)>>
          /\ propCache' = SelectSeq(propCache,
                              LAMBDA e : ~(e.devName = dev /\ <<e.propName>> = name))
    /\ EmitterReturns
    /\ UNCHANGED blobVars

\* IDDeleteVA: the whole device when name is absent.
IDDelete ==
    /\ Running /\ returned
    /\ \E dev \in Devices, name \in Option(PropNames) :
          emitted' = <<DelElement(dev, name)>>
    /\ EmitterReturns
    /\ UNCHANGED <<propCache, blobVars>>

IDMessageCall ==
    /\ Running /\ returned
    /\ \E dev \in Devices : emitted' = <<IDMessage(dev, "text")>>
    /\ EmitterReturns
    /\ UNCHANGED <<propCache, blobVars>>

\* An IDSnoopDevice that writes the element whatever the device.
IDSnoopDeviceAlways(dev, name) ==
    /\ Running /\ returned
    /\ emitted' = <<[tag |-> "getProperties", device |-> dev, name |-> name]>>
    /\ EmitterReturns
    /\ UNCHANGED <<propCache, blobVars>>

\* IDSnoopDevice(snooped_device, snooped_property): nothing is written for
\* an empty device.
IDSnoopDeviceWith(dev, name) ==
    /\ Running /\ returned
    /\ emitted' = IF dev # ""
                  THEN <<[tag |-> "getProperties", device |-> dev, name |-> name]>>
                  ELSE <<>>
    /\ EmitterReturns
    /\ UNCHANGED <<propCache, blobVars>>

IDSnoopDevice ==
    \E dev \in Devices \cup {""}, name \in Option(PropNames) :
        IDSnoopDeviceWith(dev, name)

BLOBHandling == {"Never", "Also", "Only"}

\* IDSnoopBLOBs(snooped_device, snooped_property, bh): nothing is written
\* for an empty device.
IDSnoopBLOBsWith(dev, name, bh) ==
    /\ Running /\ returned
    /\ emitted' = IF dev # ""
                  THEN <<[tag |-> "enableBLOB", device |-> dev, name |-> name,
                          bh |-> bh]>>
                  ELSE <<>>
    /\ EmitterReturns
    /\ UNCHANGED <<propCache, blobVars>>

IDSnoopBLOBs ==
    \E dev \in Devices \cup {""}, name \in Option(PropNames), bh \in BLOBHandling :
        IDSnoopBLOBsWith(dev, name, bh)

\* IUUpdateMinMax: one setNumberVector carrying the members' limits.
IUUpdateMinMax ==
    /\ Running /\ returned
    /\ \E v \in DriverVectors :
          /\ v.kind = INDI_NUMBER
          /\ emitted' = <<[tag |-> "setNumberVector", device |-> v.device,
                           name |-> v.name, ptr |-> v.ptr, limits |-> TRUE]>>
    /\ EmitterReturns
    /\ UNCHANGED <<propCache, blobVars>>

NextEmit ==
    \/ IDDefNumber
    \/ IDDefSwitch
    \/ IDDefText
    \/ IDDefBLOB
    \/ IDDefLight
    \/ IDSetNumberCall
    \/ IDSetSwitchCall
    \/ IDSetTextCall
    \/ IDSetLight
    \/ IDSetBLOB
    \/ IDDelete
    \/ IDMessageCall
    \/ IDSnoopDevice
    \/ IDSnoopBLOBs
    \/ IUUpdateMinMax
    \/ ReadElement
    \/ ReadAttribute
    \/ Dispatch

SpecEmit == InitDispatch /\ [][NextEmit]_vars

(***************************************************************************)
(* The cache under the other emitters (SpecEmit)                           *)
(***************************************************************************)
DefTags == {"defNumberVector", "defSwitchVector", "defTextVector", "defBLOBVector",
            "defLightVector"}

\* The step is a call of an emitter other than IDDef<Kind>.
OtherEmitterCalled ==
    /\ request'.tag = "none"
    /\ \A i \in 1..Len(emitted') : emitted'[i].tag \notin DefTags

\* The step is a call of IDDelete that names (dev, name) or all of dev.
DeleteCalled(dev, name) ==
    /\ request'.tag = "none"
    /\ emitted' \in {<<DelElement(dev, <<name>>)>>, <<DelElement(dev, <<>>)>>}

\* C17: a call of IDDelete, IDSet<Kind>, IDMessage, IDSnoopDevice or
\* IDSnoopBLOBs leaves the cache as it was; after IDDelete for a registered
\* property a new<Kind>Vector naming it still meets the same checks: it is
\* rejected as read-only when the entry is read-only and is not reported as
\* undefined otherwise.
C17_OnlyDefChangesCache ==
    [][ /\ OtherEmitterCalled => propCache' = propCache
        /\ \A dev \in Devices, name \in PropNames :
              (DeleteCalled(dev, name) /\ Registered(dev, name)) =>
                  \A tag \in NewTags :
                      LET o == dispatch(NewElement(tag, dev, name), propCache', "")
                      IN IF RegisteredReadOnly(dev, name)
                         THEN /\ o.ret = -1
                              /\ o.msg = "Cannot set read-only property " \o name
                         ELSE /\ o.ret = 0
                              /\ o.msg = ""
      ]_vars

\* IDDelete was called for a registered read-only property while another
\* registered property is writable.
C17_Witness ==
    /\ request.tag = "none"
    /\ \E dev \in Devices, name \in PropNames :
          /\ emitted = <<DelElement(dev, <<name>>)>>
          /\ RegisteredReadOnly(dev, name)
    /\ \E i \in 1..Len(propCache) : propCache[i].perm # IP_RO
    /\ lastBlobPingUid > 0

(***************************************************************************)
(* getProperties (SpecDispatch)                                            *)
(***************************************************************************)
\* dispatch has handled a getProperties element.
GetPropertiesDone == returned /\ request.tag = "getProperties"

VersionIs(P(_)) == request.version # <<>> /\ P(request.version[1])

Compatible(v) == v <= INDIV

TooNew(v) == v > INDIV

\* The element names both a device and a property.
NamesProperty(dev, name) == request.device = <<dev>> /\ request.name = <<name>>

\* C18: a getProperties whose version is greater than INDIV ends the driver
\* with exit(1), nothing written and no driver callback invoked, whether or
\* not the element names a registered property; a getProperties whose
\* version is at most INDIV does not end it; nothing else ends it.
C18_VersionMismatchExits ==
    /\ (GetPropertiesDone /\ VersionIs(TooNew)) =>
          /\ exitCode = <<1>>
          /\ emitted = <<>>
          /\ callbacks = <<>>
    /\ (GetPropertiesDone /\ VersionIs(Compatible)) => exitCode = <<>>
    /\ exitCode # <<>> => GetPropertiesDone /\ ~VersionIs(Compatible)

\* A too new getProperties named a registered property.
C18_Witness ==
    /\ GetPropertiesDone /\ VersionIs(TooNew)
    /\ \E dev \in Devices, name \in PropNames :
          NamesProperty(dev, name) /\ Registered(dev, name)
    /\ exitCode = <<1>>

DefTagOf(type) ==
    CASE type = INDI_NUMBER -> "defNumberVector"
      [] type = INDI_SWITCH -> "defSwitchVector"
      [] type = INDI_TEXT -> "defTextVector"
      [] type = INDI_BLOB -> "defBLOBVector"

\* C19: a getProperties with a compatible version that names a device and a
\* property found in the cache writes exactly one def<Kind>Vector, of the
\* kind and for the vector recorded in the cache entry, invokes no driver
\* callback, leaves the cache as it is and returns 0.
C19_RegisteredPropertyRedefined ==
    \A dev \in Devices, name \in PropNames :
        (GetPropertiesDone /\ VersionIs(Compatible) /\ NamesProperty(dev, name)
            /\ Registered(dev, name)) =>
            LET e == propCache[rosc_find(propCache, name, dev)]
            IN /\ emitted = <<[tag |-> DefTagOf(e.type), device |-> dev, name |-> name,
                               ptr |-> e.ptr]>>
               /\ callbacks = <<>>
               /\ ret = 0
               /\ exitCode = <<>>
               /\ KeysUnique

\* Cam/P is registered as a switch (its number vector was not defined
\* first) next to another property, and the element names Cam/P.
C19_Witness ==
    /\ GetPropertiesDone /\ VersionIs(Compatible)
    /\ NamesProperty("Cam", "P")
    /\ Len(propCache) >= 2
    /\ \E i \in 1..Len(propCache) :
          /\ propCache[i].devName = "Cam" /\ propCache[i].propName = "P"
          /\ propCache[i].type = INDI_SWITCH
    /\ Len(emitted) = 1

\* ISGetProperties(dev), dev as given in the element or absent.
GetPropertiesCallback == <<[fn |-> "ISGetProperties", dev |-> request.device]>>

\* C20 as stated: every compatible getProperties other than one naming a
\* registered (device, name) invokes ISGetProperties with the device.
C20_OtherwiseCallback ==
    (GetPropertiesDone /\ VersionIs(Compatible)
        /\ ~(\E dev \in Devices, name \in PropNames :
                NamesProperty(dev, name) /\ Registered(dev, name)))
        => callbacks = GetPropertiesCallback

\* C20 as the code has it: ISGetProperties is invoked, with the device or
\* none, when the element lacks the device or the name; when it has both
\* and the pair is not in the cache dispatch returns 0 having written
\* nothing and invoked nothing.
C20_CallbackUnlessBothGiven ==
    (GetPropertiesDone /\ VersionIs(Compatible)) =>
        /\ (request.device = <<>> \/ request.name = <<>>) =>
              /\ callbacks = GetPropertiesCallback
              /\ emitted = <<>>
              /\ ret = 0
        /\ \A dev \in Devices, name \in PropNames :
              (NamesProperty(dev, name) /\ ~Registered(dev, name)) =>
                  /\ callbacks = <<>>
                  /\ emitted = <<>>
                  /\ ret = 0
                  /\ exitCode = <<>>

\* A compatible getProperties named a pair that is not registered while the
\* same property name is registered for another device.
C20_Witness ==
    /\ GetPropertiesDone /\ VersionIs(Compatible)
    /\ \E dev \in Devices, name \in PropNames :
          /\ NamesProperty(dev, name) /\ ~Registered(dev, name)
          /\ \E i \in 1..Len(propCache) : propCache[i].propName = name

(***************************************************************************)
(* Elements with a tag dispatch does not know (SpecDispatch)               *)
(***************************************************************************)
KnownTags == {"getProperties"} \cup SnoopTags \cup NewTags

\* dispatch has handled an element whose tag it does not know.
UnknownTagDone == returned /\ request.tag \in Tags \ KnownTags

\* C21: an element whose tag is neither getProperties, nor a snoop tag, nor
\* a new<Kind>Vector returns 1 with "Unknown command: <tag>" in msg and no
\* driver callback, whatever its device and name attributes and whatever the
\* cache holds.
C21_UnknownCommand ==
    UnknownTagDone =>
        /\ ret = 1
        /\ msg = "Unknown command: " \o request.tag
        /\ callbacks = <<>>

(***************************************************************************)
(* new<Kind>Vector elements that pass both checks (SpecDispatch)           *)
(***************************************************************************)
\* dispatch has handled a new<Kind>Vector naming a registered property that
\* is not read-only.
WritableTarget(dev, name) ==
    /\ NewVectorFor(dev, name)
    /\ Registered(dev, name)
    /\ ~RegisteredReadOnly(dev, name)

\* The child is one the loop for this tag forwards to the driver.
ValidChild(tag, ep) ==
    CASE tag = "newNumberVector" ->
            ep.tag = "oneNumber" /\ ep.name # <<>> /\ f_scansexa(ep.body).ok
      [] tag = "newSwitchVector" ->
            ep.tag = "oneSwitch" /\ ep.name # <<>>
                /\ (HasPrefixOn(ep.body) \/ IsOff(ep.body))
      [] tag = "newTextVector" -> ep.tag = "oneText" /\ ep.name # <<>>
      [] tag = "newBLOBVector" ->
            ep.tag = "oneBLOB" /\ ep.name # <<>> /\ ep.format # <<>> /\ ep.size # <<>>

\* The child has the right tag and a name but its body does not parse.
MalformedChild(tag, ep) ==
    CASE tag = "newNumberVector" ->
            ep.tag = "oneNumber" /\ ep.name # <<>> /\ ~f_scansexa(ep.body).ok
      [] tag = "newSwitchVector" ->
            ep.tag = "oneSwitch" /\ ep.name # <<>>
                /\ ~(HasPrefixOn(ep.body) \/ IsOff(ep.body))
      [] OTHER -> FALSE

ValidChildren == SelectSeq(request.children, LAMBDA ep : ValidChild(request.tag, ep))

MalformedChildren ==
    SelectSeq(request.children, LAMBDA ep : MalformedChild(request.tag, ep))

CallbackOf(tag) ==
    CASE tag = "newNumberVector" -> "ISNewNumber"
      [] tag = "newSwitchVector" -> "ISNewSwitch"
      [] tag = "newTextVector" -> "ISNewText"
      [] tag = "newBLOBVector" -> "ISNewBLOB"

EmptyBatchMessage(tag, dev, name) ==
    IDMessage(dev, "[ERROR] " \o name \o
        (CASE tag = "newNumberVector" -> ": newNumberVector with no valid members"
           [] tag = "newSwitchVector" -> ": newSwitchVector with no valid members"
           [] tag = "newTextVector" -> ": set with no valid members"
           [] tag = "newBLOBVector" -> ": newBLOBVector with no valid members"))

CountOf(seq, x) == Cardinality({i \in 1..Len(seq) : seq[i] = x})

\* C22: for a new<Kind>Vector naming a registered property that is not
\* read-only dispatch returns 0; with no valid child it invokes no driver
\* callback and writes the empty-batch message for the device exactly once,
\* as the last element; with at least one valid child it invokes the
\* callback of the tag exactly once and writes no empty-batch message.
C22_EmptyBatchMessage ==
    \A dev \in Devices, name \in PropNames :
        WritableTarget(dev, name) =>
            LET empty == EmptyBatchMessage(request.tag, dev, name)
            IN /\ ret = 0
               /\ IF ValidChildren = <<>>
                  THEN /\ callbacks = <<>>
                       /\ CountOf(emitted, empty) = 1
                       /\ emitted[Len(emitted)] = empty
                  ELSE /\ Len(callbacks) = 1
                       /\ callbacks[1].fn = CallbackOf(request.tag)
                       /\ callbacks[1].dev = dev /\ callbacks[1].name = name
                       /\ CountOf(emitted, empty) = 0

\* An element whose children are all unusable: a malformed one was
\* reported, then the empty batch.
C22_Witness ==
    \E dev \in Devices, name \in PropNames :
        /\ WritableTarget(dev, name)
        /\ Len(request.children) = MaxChildren
        /\ ValidChildren = <<>>
        /\ MalformedChildren # <<>>
        /\ Len(emitted) >= 2

ParsedValue(tag, ep) ==
    IF tag = "newNumberVector" THEN f_scansexa(ep.body).value
    ELSE IF HasPrefixOn(ep.body) THEN ISS_ON ELSE ISS_OFF

PerElementMessage(tag, dev, name, ep) ==
    IDMessage(dev, "[ERROR] " \o name \o
        (IF tag = "newNumberVector" THEN ": Bad format " ELSE ": must be On or Off: ")
        \o pcdataXMLEle(ep.body))

\* C23: for newNumberVector and newSwitchVector every child whose body does
\* not parse gives one message and is left out, the rest of the batch goes
\* on: the callback receives the well-formed children in document order,
\* each name with the value parsed from the same child, and the elements
\* written are one message per malformed child (then the empty-batch
\* message when no child was well-formed).
C23_MalformedChildSkipped ==
    \A dev \in Devices, name \in PropNames :
        (WritableTarget(dev, name)
            /\ request.tag \in {"newNumberVector", "newSwitchVector"}) =>
            LET wf == ValidChildren
                bad == MalformedChildren
            IN /\ wf # <<>> =>
                     /\ Len(callbacks) = 1
                     /\ callbacks[1].names = [i \in 1..Len(wf) |-> wf[i].name[1]]
                     /\ callbacks[1].values =
                            [i \in 1..Len(wf) |-> ParsedValue(request.tag, wf[i])]
               /\ emitted =
                     [i \in 1..Len(bad) |->
                         PerElementMessage(request.tag, dev, name, bad[i])]
                        \o (IF wf = <<>>
                            THEN <<EmptyBatchMessage(request.tag, dev, name)>>
                            ELSE <<>>)

\* A malformed child came first and a well-formed one after it.
C23_Witness ==
    \E dev \in Devices, name \in PropNames :
        /\ WritableTarget(dev, name)
        /\ request.tag = "newSwitchVector"
        /\ Len(request.children) >= 2
        /\ MalformedChild(request.tag, request.children[1])
        /\ ValidChild(request.tag, request.children[2])
        /\ Len(callbacks) = 1 /\ Len(emitted) = 1

\* C30: the driver callback invoked for a new<Kind>Vector that passed both
\* checks is the one of the element's tag, whatever kind the cache entry
\* records, and no dispatch call invokes more than one driver callback.
C30_CallbackByTag ==
    /\ Len(callbacks) <= 1
    /\ \A dev \in Devices, name \in PropNames :
          (WritableTarget(dev, name) /\ callbacks # <<>>) =>
              callbacks[1].fn = CallbackOf(request.tag)

\* A newNumberVector named a property registered as a switch and
\* ISNewNumber was invoked.
C30_Witness ==
    \E dev \in Devices, name \in PropNames :
        /\ WritableTarget(dev, name)
        /\ request.tag = "newNumberVector"
        /\ propCache[rosc_find(propCache, name, dev)].type = INDI_SWITCH
        /\ Len(callbacks) = 1
        /\ callbacks[1].fn = "ISNewNumber"

(***************************************************************************)
(* Light vectors and the cache (SpecDispatch)                              *)
(***************************************************************************)
\* The step is a call of IDDefLight for vector v.
LightDefinedBy(v) ==
    /\ request'.tag = "none"
    /\ emitted' = <<DefElement(v)>>
    /\ v.kind = INDI_LIGHT

\* Every vector the driver has under (dev, name) is a light vector.
LightOnly(dev, name) ==
    /\ \E v \in DriverVectors : v.device = dev /\ v.name = name
    /\ \A v \in DriverVectors :
          (v.device = dev /\ v.name = name) => v.kind = INDI_LIGHT

NotDefined(o, dev, name) ==
    /\ o.ret = -1
    /\ o.msg = "Property " \o name \o " is not defined in " \o dev \o "."
    /\ o.callbacks = <<>>

\* C25: a call of IDDefLight writes one defLightVector and leaves the cache
\* as it was; a (device, name) the driver defines through IDDefLight only
\* is never in the cache, so right after the call, and whenever dispatch
\* handles one, every new<Kind>Vector naming it is rejected with
\* "Property <name> is not defined in <device>." and no callback is invoked.
C25_LightNotRegistered ==
    [][ /\ \A v \in DriverVectors :
              LightDefinedBy(v) =>
                  /\ emitted'[1].tag = "defLightVector"
                  /\ propCache' = propCache
                  /\ LightOnly(v.device, v.name) =>
                        \A tag \in NewTags :
                            NotDefined(dispatch(NewElement(tag, v.device, v.name),
                                                propCache', ""),
                                       v.device, v.name)
        /\ \A dev \in Devices, name \in PropNames :
              (~returned /\ returned' /\ request.tag \in NewTags
                  /\ request.device = <<dev>> /\ request.name = <<name>>
                  /\ LightOnly(dev, name)) =>
                  NotDefined([ret |-> ret', msg |-> msg', callbacks |-> callbacks'],
                             dev, name)
      ]_vars

\* The light vector has just been defined while other properties of its
\* device are in the cache.
C25_Witness ==
    /\ request.tag = "none"
    /\ \E v \in DriverVectors :
          /\ v.kind = INDI_LIGHT
          /\ emitted = <<DefElement(v)>>
          /\ LightOnly(v.device, v.name)
          /\ \E i \in 1..Len(propCache) : propCache[i].devName = v.device
          /\ ~Registered(v.device, v.name)

(***************************************************************************)
(* Children naming no member (SpecDispatch)                                *)
(***************************************************************************)
\* The forwarded children that name no member of the driver's vectors.
NonMemberChildren ==
    SelectSeq(ValidChildren, LAMBDA ep : ep.name[1] \notin MemberNames)

\* The pairs ISNewNumber received, as IUUpdateNumber takes them.
ForwardedPairs(cb) ==
    [i \in 1..Len(cb.names) |-> [name |-> cb.names[i], value |-> cb.values[i]]]

\* C26 as stated: a new<Kind>Vector for a registered writable property with
\* a child naming a non-existent member makes dispatch return -1 with a
\* message in the error buffer.
C26_NonMemberRejected ==
    \A dev \in Devices, name \in PropNames :
        (WritableTarget(dev, name) /\ NonMemberChildren # <<>>) =>
            ret = -1 /\ msg # ""

\* C26 as the code has it: dispatch does not look at member names.  For a
\* registered writable property a child naming a non-existent member is
\* forwarded like any other: dispatch returns 0, leaves the error buffer
\* as it was and invokes the callback of the tag once with that name among
\* the names.  The rejection is made by the applicator the driver calls
\* with the batch: IUUpdateNumber returns -1, stores no value, and writes
\* one setNumberVector with state Idle or Alert.
C26_NonMemberForwarded ==
    \A dev \in Devices, name \in PropNames :
        (WritableTarget(dev, name) /\ NonMemberChildren # <<>>) =>
            /\ ret = 0 /\ msg = ""
            /\ Len(callbacks) = 1
            /\ callbacks[1].fn = CallbackOf(request.tag)
            /\ \A i \in 1..Len(NonMemberChildren) :
                  \E j \in 1..Len(callbacks[1].names) :
                      callbacks[1].names[j] = NonMemberChildren[i].name[1]
            /\ request.tag = "newNumberVector" =>
                  \A nvp \in InitialNumberVectors :
                      LET r == IUUpdateNumber(nvp, ForwardedPairs(callbacks[1]))
                      IN /\ r.ret = -1
                         /\ r.vp.np = nvp.np
                         /\ r.vp.s \in {IPS_IDLE, IPS_ALERT}
                         /\ Len(r.emitted) = 1
                         /\ r.emitted[1].tag = "setNumberVector"

\* A newNumberVector whose first child names a member and whose second
\* names none reached ISNewNumber.
C26_Witness ==
    \E dev \in Devices, name \in PropNames :
        /\ WritableTarget(dev, name)
        /\ request.tag = "newNumberVector"
        /\ Len(ValidChildren) = 2
        /\ ValidChildren[1].name[1] \in MemberNames
        /\ ValidChildren[2].name[1] = UnknownName
        /\ callbacks # <<>>
        /\ callbacks[1].names = <<ValidChildren[1].name[1], UnknownName>>

(***************************************************************************)
(* Elements written per emitter call (SpecEmit)                            *)
(***************************************************************************)
\* The step is a call of an emitter that is neither IDSetBLOB nor a snoop.
PlainEmitterCall ==
    \/ IDDefNumber \/ IDDefSwitch \/ IDDefText \/ IDDefBLOB \/ IDDefLight
    \/ IDSetNumberCall \/ IDSetSwitchCall \/ IDSetTextCall \/ IDSetLight
    \/ IUUpdateMinMax \/ IDMessageCall \/ IDDelete

EmitterCall == PlainEmitterCall \/ IDSetBLOB \/ IDSnoopDevice \/ IDSnoopBLOBs

\* C24 as stated: every emitter call writes exactly one element.
C24_ExactlyOneElement == [][Len(emitted') = 1 \/ ~EmitterCall]_vars

\* C24 as the code has it: every emitter call writes exactly one element,
\* except that IDSetBLOB writes two, the setBLOBVector followed by the
\* pingRequest carrying the new ping id, and that IDSnoopDevice and
\* IDSnoopBLOBs write nothing when the snooped device is empty (and exactly
\* one element otherwise).
C24_OneElementButBlobAndEmptySnoop ==
    [][ /\ Len(emitted') = 1 \/ ~PlainEmitterCall
        /\ \/ /\ Len(emitted') = 2
              /\ emitted'[1].tag = "setBLOBVector"
              /\ emitted'[2] = [tag |-> "pingRequest",
                                name |-> BlobPingUid(lastBlobPingUid')]
           \/ ~IDSetBLOB
        /\ \A dev \in Devices \cup {""}, name \in Option(PropNames) :
              /\ Len(emitted') = (IF dev = "" THEN 0 ELSE 1)
                    \/ ~IDSnoopDeviceWith(dev, name)
              /\ \A bh \in BLOBHandling :
                    Len(emitted') = (IF dev = "" THEN 0 ELSE 1)
                        \/ ~IDSnoopBLOBsWith(dev, name, bh)
      ]_vars

\* After definitions and IDSetBLOB calls a snoop of the empty device wrote
\* nothing.
C24_Witness ==
    /\ request.tag = "none"
    /\ emitted = <<>>
    /\ propCache # <<>>
    /\ lastBlobPingUid = MaxBlobCalls

(***************************************************************************)
(* Order of emission and registration (SpecRegistry)                       *)
(***************************************************************************)
\* Thread t returns from rosc_add_unique, and so from its IDDef<Kind>.
DefReturns(t) ==
    /\ pc[t] = "unlock" /\ pc'[t] = "idle"
    /\ local[t].op = "def"

\* C29: under every interleaving of IDDef<Kind> calls with dispatch, each
\* cache entry belongs to a vector whose def<Kind>Vector element has
\* already been written, and when an IDDef<Kind> call returns the (device,
\* name) it defined is in the cache.
C29_WrittenBeforeRegistered ==
    [][ /\ \A i \in 1..Len(propCache') : propCache'[i].ptr \in written'
        /\ \A t \in threads :
              DefReturns(t) =>
                  \E i \in 1..Len(propCache') :
                      /\ propCache'[i].devName = local[t].dev
                      /\ propCache'[i].propName = local[t].name
      ]_vars

\* One element is written and not yet registered while another definition
\* has completed.
C29_Witness ==
    /\ Len(propCache) >= 1
    /\ \E p \in written :
          /\ \A i \in 1..Len(propCache) : propCache[i].ptr # p
          /\ \A i \in 1..Len(propCache) :
                ~(propCache[i].devName = VectorAt(p).device
                    /\ propCache[i].propName = VectorAt(p).name)
    /\ \E t \in DriverThreads : pc[t] = "add"

(***************************************************************************)
(* IUReadConfig                                                            *)
(* The config file is [state, children]: state says whether                *)
(* IUGetConfigFP can open it and readXMLFile can parse it, children are    *)
(* the elements under its root, in file order.                             *)
(***************************************************************************)
ConfigElement(tag, dev, name, children) ==
    [tag |-> tag, version |-> <<>>, device |-> dev, name |-> name,
     children |-> children]

\* The elements found in a config file: number and switch updates for each
\* (device, name), one without device and one without name.
ConfigChildren ==
    {ConfigElement("newNumberVector", <<d>>, <<n>>,
                   <<Child("oneNumber", <<"A">>, <<"1">>)>>) :
        d \in Devices, n \in PropNames}
    \cup {ConfigElement("newSwitchVector", <<d>>, <<n>>,
                        <<Child("oneSwitch", <<"A">>, <<"O", "n">>)>>) :
             d \in Devices, n \in PropNames}
    \cup {ConfigElement("newNumberVector", <<>>, <<"P">>, <<>>),
          ConfigElement("newSwitchVector", <<"Cam">>, <<>>, <<>>)}

\* The cache of a driver that has defined its switch, text and BLOB vectors.
DefinedCache ==
    IDDef(IDDef(IDDef(<<>>, VectorAt(2)).cache, VectorAt(3)).cache, VectorAt(4)).cache

\* What IUReadConfig has done so far: the roots handed to dispatch, the
\* callbacks and elements those calls produced, errmsg, and how the loop
\* ended ("done", or "error" when crackDN failed).
NoReplay(msg0, cache) ==
    [replayed |-> <<>>, callbacks |-> <<>>, emitted |-> <<>>, msg |-> msg0,
     cache |-> cache, exit |-> <<>>, end |-> "done"]

\* A loop that does not stop at the first element with the property's name.
RECURSIVE ReplayLoopNoBreak(_, _, _, _)
ReplayLoopNoBreak(roots, dev, property, acc) ==
    IF roots = <<>> \/ acc.exit # <<>> THEN acc
    ELSE LET root == Head(roots)
             dn == crackDN(root)
         IN IF dn.ret < 0 THEN [acc EXCEPT !.msg = dn.msg, !.end = "error"]
            ELSE IF root.device[1] # dev
            THEN ReplayLoopNoBreak(Tail(roots), dev, property, acc)
            ELSE IF property = <<>> \/ property = root.name
            THEN LET o == dispatch(root, acc.cache, acc.msg)
                 IN ReplayLoopNoBreak(Tail(roots), dev, property,
                        [acc EXCEPT !.replayed = Append(@, root),
                                    !.callbacks = @ \o o.callbacks,
                                    !.emitted = @ \o o.emitted,
                                    !.msg = o.msg, !.cache = o.cache,
                                    !.exit = o.exit])
            ELSE ReplayLoopNoBreak(Tail(roots), dev, property, acc)

\* Lines 511-531: the loop over the children of the config root.
RECURSIVE ReplayLoop(_, _, _, _)
ReplayLoop(roots, dev, property, acc) ==
    IF roots = <<>> \/ acc.exit # <<>> THEN acc
    ELSE LET root == Head(roots)
             dn == crackDN(root)
         IN IF dn.ret < 0 THEN [acc EXCEPT !.msg = dn.msg, !.end = "error"]
            ELSE IF root.device[1] # dev
            THEN ReplayLoop(Tail(roots), dev, property, acc)
            ELSE IF property = <<>> \/ property = root.name
            THEN LET o == dispatch(root, acc.cache, acc.msg)
                     next == [acc EXCEPT !.replayed = Append(@, root),
                                         !.callbacks = @ \o o.callbacks,
                                         !.emitted = @ \o o.emitted,
                                         !.msg = o.msg, !.cache = o.cache,
                                         !.exit = o.exit]
                 IN IF property # <<>> THEN next
                    ELSE ReplayLoop(Tail(roots), dev, property, next)
            ELSE ReplayLoop(Tail(roots), dev, property, acc)

\* IUReadConfig(filename, dev, property, silent, errmsg), lines 485-540.
IUReadConfig(file, dev, property, silent, cache, msg0) ==
    IF file.state = "missing"
    THEN [NoReplay("Unable to open config file", cache) EXCEPT !.end = "error"]
    ELSE IF file.state = "unparsable"
    THEN [NoReplay("Unable to parse config XML: ", cache) EXCEPT !.end = "error"]
    ELSE LET announce == Len(file.children) > 0 /\ ~silent
             start == [NoReplay(msg0, cache) EXCEPT !.emitted =
                          IF announce
                          THEN <<IDMessage(dev, "[INFO] Loading device configuration...")>>
                          ELSE <<>>]
             loop == ReplayLoop(file.children, dev, property, start)
         IN IF loop.end = "error" \/ loop.exit # <<>> \/ ~announce THEN loop
            ELSE [loop EXCEPT !.emitted =
                     Append(@, IDMessage(dev, "[INFO] Device configuration applied."))]

InitConfig ==
    /\ propCache = DefinedCache
    /\ request = [tag |-> "none"]
    /\ msg = ""
    /\ callbacks = <<>>
    /\ exitCode = <<>>
    /\ roscOwner = 0
    /\ local = <<>>
    /\ propCacheBase = 0
    /\ written = {2, 3, 4}
    /\ config \in {[state |-> st, children |-> <<>>] :
                      st \in {"missing", "unparsable", "parsed"}}
    /\ readArgs = [dev |-> "", property |-> <<>>, silent |-> FALSE]
    /\ replayed = <<>>
    /\ source_config = <<>>
    /\ dest_config = <<>>
    /\ destCreatable = TRUE
    /\ firstSaved = <<>>
    /\ InitApplyIdle
    /\ ret = 0
    /\ returned = FALSE
    /\ emitted = <<>>
    /\ InitBlobIdle

\* The file gets one more element under its root.
WriteConfigChild ==
    /\ ~returned
    /\ config.state = "parsed"
    /\ Len(config.children) < MaxConfigChildren
    /\ \E root \in ConfigChildren :
          config' = [config EXCEPT !.children = Append(@, root)]
    /\ UNCHANGED <<applyVars, blobVars, propCache, request, msg, callbacks, exitCode,
                   regVars, readArgs, replayed, source_config, dest_config,
                   destCreatable, firstSaved>>

\* The driver calls IUReadConfig on the file with a fresh errmsg.
ReadConfig ==
    /\ ~returned
    /\ \E dev \in Devices, property \in Option(PropNames), silent \in BOOLEAN :
          LET r == IUReadConfig(config, dev, property, silent, propCache, "")
          IN /\ readArgs' = [dev |-> dev, property |-> property, silent |-> silent]
             /\ replayed' = r.replayed
             /\ callbacks' = r.callbacks
             /\ emitted' = r.emitted
             /\ msg' = r.msg
             /\ propCache' = r.cache
             /\ exitCode' = r.exit
             /\ ret' = IF r.end = "error" THEN -1 ELSE 0
    /\ returned' = TRUE
    /\ UNCHANGED <<vp, pre, batch, blobVars, request, regVars, config, source_config,
                   dest_config, destCreatable, firstSaved>>

NextConfig ==
    \/ WriteConfigChild
    \/ ReadConfig

SpecConfig == InitConfig /\ [][NextConfig]_vars

(***************************************************************************)
(* Which children IUReadConfig replays (SpecConfig)                        *)
(***************************************************************************)
\* IUReadConfig has returned from a file it could open and parse.
ConfigRead == returned /\ config.state = "parsed"

MatchesDevice(root) == root.device = <<readArgs.dev>>

\* The children the call is to replay: those of the device when no
\* property is given, else the first of the device with the property's name.
RECURSIVE FirstNamed(_, _)
FirstNamed(roots, property) ==
    IF roots = <<>> THEN <<>>
    ELSE IF Head(roots).name = property THEN <<Head(roots)>>
    ELSE FirstNamed(Tail(roots), property)

ToReplay(roots) ==
    LET mine == SelectSeq(roots, MatchesDevice)
    IN IF readArgs.property = <<>> THEN mine ELSE FirstNamed(mine, readArgs.property)

\* The children before the first one that lacks device or name.
RECURSIVE WellFormedPrefix(_)
WellFormedPrefix(roots) ==
    IF roots = <<>> \/ crackDN(Head(roots)).ret < 0 THEN <<>>
    ELSE <<Head(roots)>> \o WellFormedPrefix(Tail(roots))

\* C27 as stated: the children IUReadConfig hands to dispatch are, in file
\* order, those of the requested device: all of them when property is
\* absent, only the first whose name equals property when it is given.
C27_ReplaysMatching ==
    ConfigRead => replayed = ToReplay(config.children)

\* C27 as the code has it: the same, over the children that precede the
\* first child lacking a device or name attribute; at such a child the
\* call stops and returns -1, unless the one child asked for by property
\* was replayed before it, and otherwise it returns 0.
C27_ReplaysMatchingUntilMalformed ==
    ConfigRead =>
        LET prefix == WellFormedPrefix(config.children)
            found == readArgs.property # <<>> /\ ToReplay(prefix) # <<>>
        IN /\ replayed = ToReplay(prefix)
           /\ ret = (IF Len(prefix) < Len(config.children) /\ ~found THEN -1 ELSE 0)
           /\ \A i \in 1..Len(replayed) : replayed[i].device = <<readArgs.dev>>

\* With a property given, the file held two children of the device with
\* that name and one of another device; only the first was replayed.
C27_Witness ==
    /\ ConfigRead
    /\ readArgs.property # <<>>
    /\ Len(config.children) = MaxConfigChildren
    /\ Len(SelectSeq(config.children,
                     LAMBDA r : MatchesDevice(r) /\ r.name = readArgs.property)) >= 2
    /\ \E i \in 1..Len(config.children) :
          config.children[i].device # <<>> /\ ~MatchesDevice(config.children[i])
    /\ Len(replayed) = 1
    /\ ret = 0

(***************************************************************************)
(* IUSaveDefaultConfig                                                     *)
(* source_config and dest_config are the files named by configFileName    *)
(* and configDefaultFileName (lines 546-562): <<>> when the file does not  *)
(* exist, <<bytes>> when it does.                                          *)
(***************************************************************************)
Bytes == {0, 1}

RECURSIVE ContentsUpTo(_)
ContentsUpTo(n) ==
    IF n = 0 THEN {<<>>}
    ELSE LET shorter == ContentsUpTo(n - 1)
         IN shorter \cup {Append(c, b) : c \in {d \in shorter : Len(d) = n - 1},
                                         b \in Bytes}

Contents == ContentsUpTo(MaxContent)

Files == {<<>>} \cup {<<c>> : c \in Contents}

\* while ((ch = getc(fpin)) != EOF) putc(ch, fpout), lines 573-574.
RECURSIVE CopyBytes(_, _)
CopyBytes(in, out) ==
    IF in = <<>> THEN out ELSE CopyBytes(Tail(in), Append(out, Head(in)))

\* IUSaveDefaultConfig, lines 564-589: access(dest, F_OK), fopen(source,
\* "r"), fopen(dest, "w"), the copy, and the three returns.
IUSaveDefaultConfig(src, dst, creatable) ==
    IF dst = <<>>
    THEN IF src # <<>>
         THEN [ret |-> 0,
               dst |-> IF creatable THEN <<CopyBytes(src[1], <<>>)>> ELSE dst,
               wrote |-> creatable]
         ELSE [ret |-> -1, dst |-> dst, wrote |-> FALSE]
    ELSE [ret |-> 0, dst |-> dst, wrote |-> FALSE]

InitSaveDefault ==
    /\ InitDispatch
    /\ source_config \in Files
    /\ destCreatable \in BOOLEAN

SaveFrame ==
    UNCHANGED <<vp, pre, batch, emitted, blobVars, propCache, request, msg, callbacks,
                exitCode, regVars, config, readArgs, replayed>>

\* The driver saves its config, or the user removes it: the source file
\* changes.
ChangeSource ==
    /\ \E f \in Files \ {source_config} : source_config' = f
    /\ returned' = FALSE
    /\ UNCHANGED <<ret, dest_config, destCreatable, firstSaved>>
    /\ SaveFrame

\* The directory of the default file becomes writable or stops being so.
ChangeDirectory ==
    /\ destCreatable' = ~destCreatable
    /\ returned' = FALSE
    /\ UNCHANGED <<ret, source_config, dest_config, firstSaved>>
    /\ SaveFrame

SaveDefaultConfig ==
    /\ LET r == IUSaveDefaultConfig(source_config, dest_config, destCreatable)
       IN /\ ret' = r.ret
          /\ dest_config' = r.dst
          /\ firstSaved' = IF r.wrote THEN Append(firstSaved, source_config[1])
                           ELSE firstSaved
    /\ returned' = TRUE
    /\ UNCHANGED <<source_config, destCreatable>>
    /\ SaveFrame

NextSaveDefault ==
    \/ ChangeSource
    \/ ChangeDirectory
    \/ SaveDefaultConfig

SpecSaveDefault == InitSaveDefault /\ [][NextSaveDefault]_vars

(***************************************************************************)
(* The default file is written once (SpecSaveDefault)                      *)
(***************************************************************************)
\* The step is a call of IUSaveDefaultConfig.
SaveCalled == returned'

\* C28: the default file is written at most once.  A call that finds no
\* default file and a readable source leaves the default file equal to the
\* source, byte for byte; a call that finds the default file returns 0 and
\* leaves it as it was; so a call that returned 0 leaves a default file
\* behind, holding the source as it was at the first such call.
C28_CopiedWhenAbsent ==
    [][ SaveCalled =>
          /\ (dest_config = <<>> /\ source_config # <<>>) =>
                dest_config' = source_config
          /\ dest_config # <<>> => (ret' = 0 /\ dest_config' = dest_config)
          /\ ret' = 0 => dest_config' # <<>>
          /\ Len(firstSaved') <= 1
      ]_vars

(***************************************************************************)
(* Switch vectors that are not OneOfMany (SpecApply)                       *)
(***************************************************************************)
\* IUUpdateSwitch has returned from an AtMostOne or AnyOfMany vector and a
\* batch whose names all resolve.
AppliedDirectly ==
    /\ returned
    /\ pre.kind = INDI_SWITCH
    /\ pre.r \in {ISR_ATMOST1, ISR_NOFMANY}
    /\ \A k \in 1..Len(batch) : IUFindSwitch(pre, batch[k].name) # 0

\* The positions of the batch that name member i.
Naming(i) == {k \in 1..Len(batch) : batch[k].name = pre.sp[i].name}

LastNaming(i) == CHOOSE k \in Naming(i) : \A j \in Naming(i) : j <= k

\* C31: on an AtMostOne or AnyOfMany vector IUUpdateSwitch with a batch
\* whose names all resolve returns 0 and writes nothing; each named member
\* has the state of its last occurrence in the batch, every other member,
\* the rule and the vector state are as before the call, however many
\* members end up On.
C31_AppliedDirectly ==
    AppliedDirectly =>
        /\ ret = 0
        /\ emitted = <<>>
        /\ vp.s = pre.s
        /\ vp.r = pre.r
        /\ Len(vp.sp) = Len(pre.sp)
        /\ \A i \in 1..Len(pre.sp) :
              /\ vp.sp[i].name = pre.sp[i].name
              /\ vp.sp[i].s = (IF Naming(i) = {} THEN pre.sp[i].s
                               ELSE batch[LastNaming(i)].value)

\* An AtMostOne vector with no member On ended with two On after a batch
\* that names one member twice, the last time On.
C31_Witness ==
    /\ AppliedDirectly
    /\ pre.r = ISR_ATMOST1
    /\ OnCount(pre) = 0
    /\ OnCount(vp) >= 2
    /\ \E i \in 1..Len(pre.sp) :
          /\ Cardinality(Naming(i)) >= 2
          /\ \E k \in Naming(i) : batch[k].value = ISS_OFF

====
